---- MODULE Spec2Model ----
(***************************************************************************)
(* A model of twitch-hls-client's streaming pipeline: the playlist         *)
(* parsers (hls/playlist.rs, hls/segment.rs), the segment state machine    *)
(* (hls/segment.rs, Handler::process) with its worker thread, and the      *)
(* request layer's call/retry loop (http/request.rs).                      *)
(*                                                                         *)
(* Text is a sequence of atoms.  An atom is a string that stands for an    *)
(* indivisible fragment of text; the delimiters the code searches for      *)
(* (newline, ':', ',', '=', '|', '"') are atoms of their own, so that      *)
(* lines(), starts_with, contains, split_once and replace are computed on  *)
(* the text and not assumed.                                               *)
(***************************************************************************)
EXTENDS Integers, Sequences, FiniteSets, TLC

(***************************************************************************)
(* Bounds of the model.                                                    *)
(***************************************************************************)
MaxBlocks == 3
MaxBody == 3
MaxRetries == 2
MaxCalls == 2
MaxSeg == 3
MaxWin == 2
MaxSent == 3
MaxServers == 3
SegLen == 2
MaxAvail == 5
MaxReads == 2
MaxEvents == 2

(***************************************************************************)
(* Text primitives (Rust's str methods, on sequences of atoms).            *)
(***************************************************************************)
NL == "\n"
QUOTE == "\""

IsPrefixAt(s, pat, i) ==
    /\ i + Len(pat) - 1 <= Len(s)
    /\ \A k \in 1..Len(pat) : s[i + k - 1] = pat[k]

\* str::find: the index of the first occurrence of pat in s, 0 when absent.
RECURSIVE FindFrom(_, _, _)
FindFrom(s, pat, i) ==
    IF i + Len(pat) - 1 > Len(s) THEN 0
    ELSE IF IsPrefixAt(s, pat, i) THEN i
    ELSE FindFrom(s, pat, i + 1)

Find(s, pat) == FindFrom(s, pat, 1)

Contains(s, pat) == Find(s, pat) # 0

StartsWith(s, pat) == IsPrefixAt(s, pat, 1)

\* str::split_once on a one-atom delimiter: Some((before, after)) or None.
SplitOnce(s, c) ==
    LET i == Find(s, <<c>>)
    IN  IF i = 0
        THEN [some |-> FALSE, before |-> <<>>, after |-> <<>>]
        ELSE [some |-> TRUE, before |-> SubSeq(s, 1, i - 1),
              after |-> SubSeq(s, i + 1, Len(s))]

\* str::replace(c, ""): every occurrence of the atom c removed.
RemoveAll(s, c) == SelectSeq(s, LAMBDA a : a # c)

RECURSIVE Split(_, _)
Split(s, c) ==
    LET i == Find(s, <<c>>)
    IN  IF i = 0 THEN <<s>>
        ELSE <<SubSeq(s, 1, i - 1)>> \o Split(SubSeq(s, i + 1, Len(s)), c)

\* str::lines: the text split at newlines; a final empty line is not a line.
Lines(s) ==
    LET parts == Split(s, NL)
    IN  IF parts[Len(parts)] = <<>> THEN SubSeq(parts, 1, Len(parts) - 1)
        ELSE parts

\* str::lines().next_back().unwrap_or_default(): the last line, read from the
\* end of the text.
LastLine(s) ==
    LET t == IF s # <<>> /\ s[Len(s)] = NL THEN SubSeq(s, 1, Len(s) - 1) ELSE s
        nl == {i \in 1..Len(t) : t[i] = NL}
    IN  IF nl = {} THEN t
        ELSE SubSeq(t, (CHOOSE i \in nl : \A j \in nl : j <= i) + 1, Len(t))

RECURSIVE Join(_)
Join(ls) == IF ls = <<>> THEN <<>> ELSE Head(ls) \o <<NL>> \o Join(Tail(ls))

RECURSIVE Flatten(_)
Flatten(ss) == IF ss = <<>> THEN <<>> ELSE Head(ss) \o Flatten(Tail(ss))

Ok(v) == [ok |-> TRUE, val |-> v]
Err(e) == [ok |-> FALSE, val |-> e]
Some(v) == [some |-> TRUE, v |-> v]
None == [some |-> FALSE, v |-> <<>>]

(***************************************************************************)
(* hls/segment.rs: Duration, Segment, Header.                              *)
(***************************************************************************)
\* str::parse::<f32> followed by StdDuration::try_from_secs_f32, in
\* milliseconds: the decimal texts the playlists of this model use.
SecsTable ==
    [t \in {"0.978", "2.000", "5.0", "30.0"} |->
        CASE t = "0.978" -> 978
          [] t = "2.000" -> 2000
          [] t = "5.0" -> 5000
          [] t = "30.0" -> 30000]

\* Duration::from_str
Duration_from_str(s) ==
    LET a == SplitOnce(s, ":")
        b == IF a.some THEN SplitOnce(a.after, ",") ELSE a
    IN  IF ~b.some THEN Err("Invalid segment duration")
        ELSE IF ~(Len(b.before) = 1 /\ b.before[1] \in DOMAIN SecsTable)
        THEN Err("Failed to parse segment duration")
        ELSE Ok([is_ad |-> Contains(s, <<"|">>),
                 was_capped |-> FALSE,
                 inner |-> SecsTable[b.before[1]]])

\* const MAX_DURATION of Duration::sleep, in milliseconds.
MAX_DURATION == 3000

NoDuration == [is_ad |-> FALSE, was_capped |-> FALSE, inner |-> -1]

Normal(d, u) == [kind |-> "Normal", duration |-> d, url |-> Some(u)]
NextPrefetch(d, u) == [kind |-> "NextPrefetch", duration |-> d, url |-> Some(u)]
NewestPrefetch(u) == [kind |-> "NewestPrefetch", duration |-> NoDuration, url |-> Some(u)]
Unknown == [kind |-> "Unknown", duration |-> NoDuration, url |-> None]

\* Segment::destructure_ref
destructure_ref(seg) ==
    [duration |-> IF seg.kind \in {"Normal", "NextPrefetch"}
                  THEN Some(seg.duration) ELSE None,
     url |-> IF seg.kind = "Unknown" THEN None ELSE seg.url]

\* The equality #[derive(PartialEq)] would give Segment.
SegEq_Derived(a, b) == a = b

\* impl PartialEq for Segment
SegEq(a, b) == destructure_ref(a).url = destructure_ref(b).url

\* A Header::from_str that strips only the first and the last quote.
Header_from_str_Surrounding(playlist) ==
    LET ls == Lines(playlist)
        hits == {i \in 1..Len(ls) : StartsWith(ls[i], <<"#EXT-X-MAP">>)}
    IN  IF hits = {} THEN None
        ELSE LET i == CHOOSE i \in hits : \A j \in hits : i <= j
                 so == SplitOnce(ls[i], "=")
                 a == IF so.after # <<>> /\ Head(so.after) = QUOTE
                      THEN Tail(so.after) ELSE so.after
                 b == IF a # <<>> /\ a[Len(a)] = QUOTE
                      THEN SubSeq(a, 1, Len(a) - 1) ELSE a
             IN  IF so.some THEN Some(b) ELSE None

\* Header::from_str
Header_from_str(playlist) ==
    LET ls == Lines(playlist)
        hits == {i \in 1..Len(ls) : StartsWith(ls[i], <<"#EXT-X-MAP">>)}
    IN  IF hits = {} THEN None
        ELSE LET i == CHOOSE i \in hits : \A j \in hits : i <= j
                 so == SplitOnce(ls[i], "=")
             IN  IF so.some THEN Some(RemoveAll(so.after, QUOTE)) ELSE None

\* Duration::sleep_thread: the time slept, -1 when thread::sleep is not called.
sleep_thread(duration, elapsed) ==
    IF duration >= elapsed THEN duration - elapsed ELSE -1

\* Duration::sleep_half
sleep_half(d, elapsed) == sleep_thread(d.inner \div 2, elapsed)

\* A Duration::sleep without the cap.
Duration_sleep_Uncapped(d, elapsed) ==
    [duration |-> d, slept |-> sleep_thread(d.inner, elapsed)]

\* Duration::sleep: the Duration afterwards and the time slept.
Duration_sleep(d, elapsed) ==
    IF d.inner >= MAX_DURATION \/ d.was_capped
    THEN [duration |-> [d EXCEPT !.was_capped = TRUE],
          slept |-> sleep_half(d, elapsed)]
    ELSE [duration |-> d, slept |-> sleep_thread(d.inner, elapsed)]

\* A find_next that starts from the last element equal to prev.
find_next_LastMatch(prev, segs) ==
    LET hits == {i \in 1..Len(segs) : SegEq(prev, segs[i])}
    IN  IF hits # {}
        THEN LET idx == (CHOOSE i \in hits : \A j \in hits : j <= i) + 1
             IN  IF idx = Len(segs) + 1
                 THEN [some |-> FALSE, v |-> Unknown, list |-> segs]
                 ELSE [some |-> TRUE, v |-> segs[idx],
                       list |-> [segs EXCEPT ![idx] = Unknown]]
        ELSE [some |-> TRUE, v |-> Unknown, list |-> segs]

\* Segment::find_next: None, or Some(segment) with the list as it is left.
find_next(prev, segs) ==
    LET hits == {i \in 1..Len(segs) : SegEq(prev, segs[i])}
    IN  IF hits # {}
        THEN LET idx == (CHOOSE i \in hits : \A j \in hits : i <= j) + 1
             IN  IF idx = Len(segs) + 1
                 THEN [some |-> FALSE, v |-> Unknown, list |-> segs]
                 ELSE [some |-> TRUE, v |-> segs[idx],
                       list |-> [segs EXCEPT ![idx] = Unknown]]
        ELSE [some |-> TRUE, v |-> Unknown, list |-> segs]

(***************************************************************************)
(* hls/playlist.rs: MasterPlaylist and MediaPlaylist parsing.              *)
(***************************************************************************)
\* A variant search that keeps the last matching line instead of the first.
parse_variant_playlist_LastMatch(playlist, quality) ==
    LET ls == Lines(playlist)
        hits == {i \in 1..Len(ls) :
                    /\ Contains(ls[i], <<"#EXT-X-MEDIA">>)
                    /\ (Contains(ls[i], quality) \/ quality = <<"best">>)}
        i == IF hits = {} THEN Len(ls) + 1
             ELSE CHOOSE i \in hits : \A j \in hits : j <= i
    IN  IF i + 2 > Len(ls)
        THEN Err("Invalid quality or malformed master playlist")
        ELSE Ok([url |-> ls[i + 2],
                 low_latency |->
                    Contains(playlist, <<"FUTURE", "=", QUOTE, "true", QUOTE>>)])

\* MasterPlaylist::parse_variant_playlist
parse_variant_playlist(playlist, quality) ==
    LET ls == Lines(playlist)
        hits == {i \in 1..Len(ls) :
                    /\ Contains(ls[i], <<"#EXT-X-MEDIA">>)
                    /\ (Contains(ls[i], quality) \/ quality = <<"best">>)}
        i == IF hits = {} THEN Len(ls) + 1
             ELSE CHOOSE i \in hits : \A j \in hits : i <= j
    IN  IF i + 2 > Len(ls)
        THEN Err("Invalid quality or malformed master playlist")
        ELSE Ok([url |-> ls[i + 2],
                 low_latency |->
                    Contains(playlist, <<"FUTURE", "=", QUOTE, "true", QUOTE>>)])

\* An error mapping that reports every failed request as the end of the stream.
map_if_offline_Always(e) == "Offline"

\* map_if_offline: http::Error::NotFound becomes Error::Offline, any other
\* error is returned as it is.
map_if_offline(e) == IF e = "NotFound" THEN "Offline" ELSE e

\* MasterPlaylist::fetch_twitch_playlist from the answer resp of
\* agent.get(url)?.text() on: the error mapped, or the body parsed.
fetch_twitch_playlist(resp, quality) ==
    IF ~resp.ok
    THEN Err(map_if_offline(resp.val))
    ELSE parse_variant_playlist(resp.val, quality)

\* servers.iter().find_map(..) of fetch_proxy_playlist from server i on;
\* answers[i] is what server i answers: Ok(body), or the error of agent.get
\* ("Connect") or of request.text().  The closure returns None on every
\* error, which makes find_map go on to the next server.  tried: the number
\* of servers a request was made to; log: the error! lines.
RECURSIVE find_map(_, _, _)
find_map(answers, i, log) ==
    IF i > Len(answers)
    THEN [playlist |-> None, tried |-> Len(answers), log |-> log]
    ELSE IF answers[i].ok
    THEN [playlist |-> Some(answers[i].val), tried |-> i, log |-> log]
    ELSE IF answers[i].val = "NotFound"
    THEN find_map(answers, i + 1,
                  Append(log, "Playlist not found. Stream offline?"))
    ELSE find_map(answers, i + 1, Append(log, answers[i].val))

\* MasterPlaylist::fetch_proxy_playlist
fetch_proxy_playlist(answers, quality) ==
    LET found == find_map(answers, 1, <<>>)
    IN  [result |-> IF found.playlist.some
                    THEN parse_variant_playlist(found.playlist.v, quality)
                    ELSE Err("Offline"),
         tried |-> found.tried,
         log |-> found.log]

\* A MasterPlaylist::new that keeps the low_latency the parser found.
MasterPlaylist_new_KeepParsed(args, resp) ==
    IF args.servers.some
    THEN fetch_proxy_playlist(args.servers.v, args.quality).result
    ELSE fetch_twitch_playlist(resp, args.quality)

\* MasterPlaylist::new; args: args.servers (for each server its answer),
\* args.quality and args.low_latency, resp: the answer of the Twitch playlist
\* request.
MasterPlaylist_new(args, resp) ==
    LET master_playlist ==
            IF args.servers.some
            THEN fetch_proxy_playlist(args.servers.v, args.quality).result
            ELSE fetch_twitch_playlist(resp, args.quality)
    IN  IF ~master_playlist.ok THEN master_playlist
        ELSE Ok([master_playlist.val EXCEPT
                    !.low_latency = master_playlist.val.low_latency
                                    /\ args.low_latency])

\* MediaPlaylist::reload on the response resp of self.request.text(): the
\* playlist it leaves and its result.
MediaPlaylist_reload(old, resp) ==
    IF ~resp.ok
    THEN [playlist |-> old, result |-> Err(map_if_offline(resp.val))]
    ELSE [playlist |-> resp.val,
          result |-> IF StartsWith(LastLine(resp.val), <<"#EXT-X-ENDLIST">>)
                     THEN Err("Offline") ELSE Ok("unit")]

\* MediaPlaylist::is_prefetch_segment
is_prefetch_segment(line) == StartsWith(line, <<"#EXT-X-TWITCH-PREFETCH">>)

\* A last_duration that searches from the start of the body.
last_duration_FromStart(playlist) ==
    LET ls == Lines(playlist)
        hits == {i \in 1..Len(ls) : StartsWith(ls[i], <<"#EXTINF">>)}
    IN  IF hits = {} THEN Err("Failed to get prefetch segment duration")
        ELSE Duration_from_str(ls[CHOOSE i \in hits : \A j \in hits : i <= j])

\* MediaPlaylist::last_duration
last_duration(playlist) ==
    LET ls == Lines(playlist)
        hits == {i \in 1..Len(ls) : StartsWith(ls[i], <<"#EXTINF">>)}
    IN  IF hits = {} THEN Err("Failed to get prefetch segment duration")
        ELSE Duration_from_str(ls[CHOOSE i \in hits : \A j \in hits : j <= i])

\* The while-let loop of MediaPlaylist::segments from line i on.
RECURSIVE SegmentsFrom(_, _, _)
SegmentsFrom(playlist, ls, i) ==
    IF i > Len(ls) THEN Ok(<<>>)
    ELSE IF StartsWith(ls[i], <<"#EXTINF">>)
    THEN LET d == Duration_from_str(ls[i])
         IN  IF ~d.ok THEN d
             ELSE IF ~d.val.is_ad
             THEN IF i + 1 <= Len(ls)
                  THEN LET rest == SegmentsFrom(playlist, ls, i + 2)
                       IN  IF rest.ok
                           THEN Ok(<<Normal(d.val, ls[i + 1])>> \o rest.val)
                           ELSE rest
                  ELSE Ok(<<>>)
             ELSE SegmentsFrom(playlist, ls, i + 1)
    ELSE IF is_prefetch_segment(ls[i])
    THEN LET d == last_duration(playlist)
             so == SplitOnce(ls[i], ":")
         IN  IF ~d.ok THEN d
             ELSE IF ~so.some THEN Err("Failed to parse next prefetch URL")
             ELSE IF i + 1 > Len(ls)
             THEN Ok(<<NextPrefetch(d.val, so.after)>>)
             ELSE LET so2 == SplitOnce(ls[i + 1], ":")
                      rest == SegmentsFrom(playlist, ls, i + 2)
                  IN  IF is_prefetch_segment(ls[i + 1])
                      THEN IF ~so2.some
                           THEN Err("Failed to parse newest prefetch URL")
                           ELSE IF rest.ok
                           THEN Ok(<<NextPrefetch(d.val, so.after),
                                     NewestPrefetch(so2.after)>> \o rest.val)
                           ELSE rest
                      ELSE IF rest.ok
                           THEN Ok(<<NextPrefetch(d.val, so.after)>> \o rest.val)
                           ELSE rest
    ELSE SegmentsFrom(playlist, ls, i + 1)

\* MediaPlaylist::segments
segments(playlist) == SegmentsFrom(playlist, Lines(playlist), 1)

\* What one Handler::process call does, as far as it does not depend on the
\* worker: the branch taken, the messages handed to the worker in order, the
\* prev_segment and init it leaves, and the time slept (-1: no sleep).
ProcessResult(status, branch, msgs, prev, init, slept) ==
    [status |-> status, branch |-> branch, msgs |-> msgs, prev |-> prev,
     init |-> init, slept |-> slept]

\* A dispatch that hands a NewestPrefetch over with url() like the other
\* segments instead of sync_url().
DispatchNext_Async(segment, init, elapsed) ==
    IF segment.kind = "NewestPrefetch"
    THEN ProcessResult("ok", "newest",
            <<[kind |-> "Url", url |-> segment.url.v]>>, segment, init, -1)
    ELSE LET sl == Duration_sleep(segment.duration, elapsed)
         IN  ProcessResult("ok", "next",
                <<[kind |-> "Url", url |-> segment.url.v]>>,
                [segment EXCEPT !.duration = sl.duration], init, sl.slept)

\* A dispatch that leaves prev_segment without the URL it handed over.
DispatchNext_UrlTaken(segment, init, elapsed) ==
    IF segment.kind = "NewestPrefetch"
    THEN ProcessResult("ok", "newest",
            <<[kind |-> "SyncUrl", url |-> segment.url.v]>>,
            [segment EXCEPT !.url = None], init, -1)
    ELSE LET sl == Duration_sleep(segment.duration, elapsed)
         IN  ProcessResult("ok", "next",
                <<[kind |-> "Url", url |-> segment.url.v]>>,
                [segment EXCEPT !.duration = sl.duration, !.url = None],
                init, sl.slept)

\* The match on the segment find_next returned, without the Unknown arm.
DispatchNext(segment, init, elapsed) ==
    IF segment.kind = "NewestPrefetch"
    THEN ProcessResult("ok", "newest",
            <<[kind |-> "SyncUrl", url |-> segment.url.v]>>, segment, init, -1)
    ELSE LET sl == Duration_sleep(segment.duration, elapsed)
         IN  ProcessResult("ok", "next",
                <<[kind |-> "Url", url |-> segment.url.v]>>,
                [segment EXCEPT !.duration = sl.duration], init, sl.slept)

\* An Unknown arm that goes back to the oldest segment of the list.
SkipToNewest_Oldest(segs, prev_segment) ==
    IF segs = <<>>
    THEN ProcessResult("err", "unknown", <<>>, prev_segment, FALSE, -1)
    ELSE LET first_segment == segs[1]
             url == destructure_ref(first_segment).url
         IN  IF ~url.some
             THEN ProcessResult("err", "unknown", <<>>, prev_segment, FALSE, -1)
             ELSE ProcessResult("ok", "unknown",
                    <<[kind |-> "SyncUrl", url |-> url.v]>>,
                    first_segment, FALSE, -1)

\* The Unknown arm: skip to the newest segment of the list.
SkipToNewest(segs, prev_segment) ==
    IF segs = <<>>
    THEN ProcessResult("err", "unknown", <<>>, prev_segment, FALSE, -1)
    ELSE LET last_segment == segs[Len(segs)]
             url == destructure_ref(last_segment).url
         IN  IF ~url.some
             THEN ProcessResult("err", "unknown", <<>>, prev_segment, FALSE, -1)
             ELSE ProcessResult("ok", "unknown",
                    <<[kind |-> "SyncUrl", url |-> url.v]>>,
                    last_segment, FALSE, -1)

\* A retry that hands the URL of prev_segment to the worker once more.
RetryUnchanged_Resend(prev_segment, init, elapsed) ==
    LET d == destructure_ref(prev_segment)
    IN  IF ~d.duration.some
        THEN ProcessResult("err", "unchanged", <<>>, prev_segment, init, -1)
        ELSE ProcessResult("ok", "unchanged",
                           <<[kind |-> "Url", url |-> d.url.v]>>,
                           prev_segment, init, sleep_half(d.duration.v, elapsed))

\* The else arm: prev_segment is the last element of the list.
RetryUnchanged(prev_segment, init, elapsed) ==
    LET duration == destructure_ref(prev_segment).duration
    IN  IF ~duration.some
        THEN ProcessResult("err", "unchanged", <<>>, prev_segment, init, -1)
        ELSE ProcessResult("ok", "unchanged", <<>>, prev_segment, init,
                           sleep_half(duration.v, elapsed))

\* The ad filter of Handler::process: the duration of the last Normal
\* segment of the list, if there is one.
LastNormalDuration(segs) ==
    LET normals == {i \in 1..Len(segs) : segs[i].kind = "Normal"}
    IN  IF normals = {} THEN None
        ELSE Some(segs[CHOOSE i \in normals : \A j \in normals : j <= i].duration)

\* The if-let on find_next and the match on the segment it returned.
Dispatch(next, segs, prev_segment, init, elapsed) ==
    IF next.some
    THEN IF next.v.kind = "Unknown"
         THEN SkipToNewest(segs, prev_segment)
         ELSE DispatchNext(next.v, init, elapsed)
    ELSE RetryUnchanged(prev_segment, init, elapsed)

\* Handler::process once self.playlist.segments() has returned Ok(segs).
ProcessSegments(segs, duration, prev_segment, init, elapsed) ==
    IF duration.some /\ duration.v.is_ad
    THEN ProcessResult("ok", "ad", <<>>, prev_segment, init,
                       Duration_sleep(duration.v, elapsed).slept)
    ELSE Dispatch(find_next(prev_segment, segs), segs, prev_segment, init,
                  elapsed)

\* Handler::process on the result of self.playlist.segments().
ProcessParsed(parsed, prev_segment, init, elapsed) ==
    IF ~parsed.ok
    THEN ProcessResult("err", "parse", <<>>, prev_segment, init, -1)
    ELSE ProcessSegments(parsed.val, LastNormalDuration(parsed.val),
                         prev_segment, init, elapsed)

\* Handler::process
process(playlist, prev_segment, init, elapsed) ==
    ProcessParsed(segments(playlist), prev_segment, init, elapsed)

(***************************************************************************)
(* State.                                                                  *)
(*   pIn, pOp, pOut : a parser's input, the parser applied to it and its   *)
(*                    result (the pure functions of hls/).                 *)
(*   hpc .. truncated: one Request<T> of http/request.rs inside call():   *)
(*     hpc          where call() stands: "idle", "headers" (an attempt of  *)
(*                  do_request has not read the headers yet), "request"    *)
(*                  (the attempt is copying the body), "done" (returned    *)
(*                  Ok), "failed" (returned Err)                           *)
(*     handler      Handler { written, resume_target }                     *)
(*     retries      the local retries of call()                            *)
(*     cfg_retries  agent.args.retries                                     *)
(*     body         the decoded response body of the request's URL         *)
(*     pos          body bytes the running attempt has passed to           *)
(*                  Handler::write                                         *)
(*     sink         the bytes the writer received since call() began       *)
(*     attempts     do_request attempts of this call()                     *)
(*     truncated    an attempt of this call() ended on the ignored         *)
(*                  InvalidInput before the end of the body                *)
(*     calls        call() invocations on this request so far              *)
(*     url          Request.url                                            *)
(*     transport    the connection Request.stream wraps                    *)
(*     raw          Request.raw, the wire string                           *)
(*     code         the status code the last do_request read (0: none)     *)
(*     attempt_err  the error do_request returned to call() in the last    *)
(*                  step of ReadHeaders or AttemptErr (NoError: none)      *)
(*     err          the error the last call returned                       *)
(*   srv .. regressed: one stream session, the main thread in the loop     *)
(*   "reload, process" and the worker thread:                              *)
(*     srv          the server's live playlist: #EXTINF entries for the    *)
(*                  segments lo..hi of the stream, pre prefetch lines for  *)
(*                  the ones after hi, ads the listed segments that are    *)
(*                  ads                                                    *)
(*     playlist     MediaPlaylist.playlist                                 *)
(*     mpc          the main thread: "reload", "process", "sync_wait" (in  *)
(*                  process, inside Worker::sync_url), "offline", "error"  *)
(*     prev_segment, init   the fields of hls::segment::Handler            *)
(*     pending      the segment process() holds while it waits in sync_url *)
(*     chan         the worker's channel, oldest message first             *)
(*     sync_ack     the worker has answered the SyncUrl handshake          *)
(*     wpc, wurl, wpos   the worker: "idle" or "busy" with the request for *)
(*                  wurl, wpos bytes of its body written; "exited" when    *)
(*                  its thread has ended                                   *)
(*     player       the bytes the player's stdin received: <<url, i>> is   *)
(*                  byte i of the body of url                              *)
(*     sent         the URLs process() handed to the worker, in order      *)
(*     skipped      the indexes in sent of the URLs the worker skipped     *)
(*                  (NotFound)                                             *)
(*     cycle        the last process() call: its result, its branch, the   *)
(*                  number of URLs it handed over, the prev_segment it     *)
(*                  started from, and whether it logged "Failed to find    *)
(*                  next segment, skipping to newest..."                   *)
(***************************************************************************)
VARIABLES pIn, pOp, pOut,
          hpc, handler, retries, cfg_retries, body, pos, sink, attempts, truncated,
          calls, url, transport, raw, code, attempt_err, err,
          srv, playlist, mpc, prev_segment, init, pending, chan, sync_ack,
          wpc, wurl, wpos, player, sent, skipped, cycle

pvars == <<pIn, pOp, pOut>>
hvars == <<hpc, handler, retries, cfg_retries, body, pos, sink, attempts, truncated,
           calls, url, transport, raw, code, attempt_err, err>>
mvars == <<srv, playlist, mpc, prev_segment, init, pending, sent, cycle>>
wvars == <<wpc, wurl, wpos, player, skipped>>
svars == <<mvars, chan, sync_ack, wvars>>
vars == <<pvars, hvars, svars>>

\* The parsers at rest (the other specifications do not use them).
IdleParse ==
    /\ pIn = [kind |-> "none", playlist |-> <<>>, quality |-> <<>>, error |-> "none",
              resp |-> [lens |-> <<>>, code |-> 0, headers |-> <<>>],
              args |-> [servers |-> None, low_latency |-> FALSE],
              prev |-> Unknown, segs |-> <<>>, elapsed |-> <<>>,
              stream |-> [avail |-> 0, reads |-> <<>>],
              req |-> [data |-> <<>>, headers |-> <<>>, events |-> <<>>]]
    /\ pOp = "none"
    /\ pOut = None

NoCycle ==
    [status |-> "none", branch |-> "none", n |-> 0, prev_before |-> Unknown,
     notice |-> FALSE]

\* The session before its first reload: hls::segment::Handler::new, an idle
\* worker, nothing listed by the server yet.
IdleSeg ==
    /\ srv = [lo |-> 1, hi |-> 0, pre |-> 0, ads |-> {}]
    /\ playlist = <<>>
    /\ mpc = "reload"
    /\ prev_segment = Unknown
    /\ init = TRUE
    /\ pending = Unknown
    /\ chan = <<>>
    /\ sync_ack = FALSE
    /\ wpc = "idle"
    /\ wurl = <<>>
    /\ wpos = 0
    /\ player = <<>>
    /\ sent = <<>>
    /\ skipped = {}
    /\ cycle = NoCycle

(***************************************************************************)
(* http/request.rs: Request::url, call, do_request, reconnect and the       *)
(* Handler; http.rs: Decoder::new.                                         *)
(***************************************************************************)
MAX_HEADERS_SIZE == 2048
HEADERS_END_SIZE == 2

Min(a, b) == IF a <= b THEN a ELSE b

\* A Url: the parts Request reads (scheme(), host(), path()).
MkUrl(scheme, host, path) == [scheme |-> scheme, host |-> host, path |-> path]
NoUrl == MkUrl("", "", 0)

\* The errors of the request layer: an io::Error of some kind, http::Error::
\* NotFound(url), http::Error::Status(code, url), or another anyhow error.
NoError == [kind |-> "none", io |-> "", code |-> 0, url |-> NoUrl]
IoError(k) == [kind |-> "Io", io |-> k, code |-> 0, url |-> NoUrl]
NotFound(u) == [kind |-> "NotFound", io |-> "", code |-> 404, url |-> u]
Status(c, u) == [kind |-> "Status", io |-> "", code |-> c, url |-> u]
OtherError(msg) == [kind |-> "Other", io |-> msg, code |-> 0, url |-> NoUrl]

\* Handler::new
Handler_new == [written |-> 0, resume_target |-> 0]

\* Handler::write(buf): the handler and the writer's bytes after the call.
Handler_write(h, out, buf) ==
    LET buf_len == Len(buf)
    IN  IF h.resume_target > 0
        THEN IF (h.written + buf_len) >= h.resume_target
             THEN LET cut == SubSeq(buf, h.resume_target - h.written + 1, buf_len)
                  IN  [handler |-> [written |-> h.written + Len(cut),
                                    resume_target |-> 0],
                       out |-> out \o cut]
             ELSE [handler |-> [h EXCEPT !.written = h.written + buf_len],
                   out |-> out]
        ELSE [handler |-> [h EXCEPT !.written = h.written + buf_len],
              out |-> out \o buf]

\* A reconnect that keeps the handler of the request it replaces.
reconnect_KeepHandler(h) == h

\* Request::reconnect: *self = Request::new(writer, ..), whose handler is
\* Handler::new(writer).
reconnect(h) == Handler_new

\* Request::call, lines 136-141: the resume offset taken from the handler
\* the request holds after reconnect().
ResumeFrom(h) ==
    IF h.written > 0
    THEN [written |-> 0, resume_target |-> h.written]
    ELSE h

\* Transport::new(url, agent): a new connection; gen tells it from the one
\* it replaces.
Transport_new(u, gen) == [scheme |-> u.scheme, host |-> u.host, gen |-> gen]

\* Request::build: the request line and the Host header of the wire string.
build(u) == [path |-> u.path, host |-> u.host]

\* A URL test that looks at the host alone.
Request_url_HostOnly(cur, new) ==
    IF cur.host # new.host THEN "reconnect" ELSE "build"

\* A URL update that opens a new connection every time.
Request_url_AlwaysReconnect(cur, new) == "reconnect"

\* Request::url, line 111: what the update of the URL cur to new does.
Request_url(cur, new) ==
    IF cur.scheme # new.scheme \/ cur.host # new.host
    THEN "reconnect" ELSE "build"

\* Request::build with the fields it formats into the wire string: the
\* path and host of the URL, self.headers and self.data.
Request_build(req) ==
    [req EXCEPT !.raw = [path |-> req.url.path, host |-> req.url.host,
                         headers |-> req.headers, data |-> req.data]]

\* Request::header: the header is appended to self.headers, then build().
Request_header(req, header) ==
    Request_build([req EXCEPT !.headers = Append(@, header)])

\* A URL with a port: what Url::scheme, host, port and path return.
MkPortUrl(host, port, path) ==
    [scheme |-> "https", host |-> host, port |-> port, path |-> path]

\* Transport::new: the socket is connected to "{host}:{port}".
Transport_connect(u) == [scheme |-> u.scheme, addr |-> <<u.host, u.port>>]

\* Request::new: a new Transport for the URL; headers start empty;
\* Content-Length is added when there is data to send.
Request_new(u, data) ==
    LET request == Request_build([stream |-> Transport_connect(u), url |-> u,
                                  headers |-> <<>>, data |-> data,
                                  raw |-> <<>>])
    IN  IF data # <<>>
        THEN Request_header(request, <<"Content-Length", ToString(Len(data))>>)
        ELSE request

\* Request::reconnect: *self = Request::new(writer, method, url, data, agent).
Request_reconnect(req, u) == Request_new(u, req.data)

\* Request::url, with what it does to the request.
Request_set_url(req, u) ==
    IF Request_url(req.url, u) = "reconnect"
    THEN Request_reconnect(req, u)
    ELSE Request_build([req EXCEPT !.url = u])

\* What happens to a request between two attempts: call() reconnects for a
\* retry, or the next call is made after url(u).
Request_event(req, ev) ==
    IF ev.kind = "retry" THEN Request_reconnect(req, req.url)
    ELSE Request_set_url(req, ev.url)

\* The attempts of a request that gets its headers after construction, the
\* first one and the one after every event: the wire string written, the
\* connection it is written to and the URL the request is for.
RECURSIVE WireRequests(_, _)
WireRequests(req, events) ==
    LET sends == << [wire |-> req.raw, stream |-> req.stream, url |-> req.url] >>
    IN  IF events = <<>> THEN sends
        ELSE sends \o WireRequests(Request_event(req, Head(events)), Tail(events))

RECURSIVE AddHeaders(_, _)
AddHeaders(req, headers) ==
    IF headers = <<>> THEN req
    ELSE AddHeaders(Request_header(req, Head(headers)), Tail(headers))

\* A retry test that allows one retry more.
MayRetry_Inclusive(r, cfg) == r <= cfg

\* Request::call, line 124: retries < self.agent.args.retries.
MayRetry(r, cfg) == r < cfg

\* A classification that retries after every io::Error.
Retryable_AnyIo(e) == e.kind = "Io"

\* Request::call, lines 125-129: the errors call() goes on after.
Retryable(e) == e.kind = "Io" /\ e.io # "Other"

\* do_request, lines 166-178: the header lines are read with read_until, at
\* most MAX_HEADERS_SIZE bytes a time, until a read returns HEADERS_END_SIZE
\* bytes.  lens: the lengths of the lines the server still sends before it
\* closes; buffered: the bytes in the response buffer.
RECURSIVE read_headers(_, _)
read_headers(lens, buffered) ==
    IF lens = <<>>
    THEN [ok |-> FALSE, response |-> buffered]
    ELSE LET consumed == Min(Head(lens), MAX_HEADERS_SIZE)
             rest == IF Head(lens) > consumed
                     THEN <<Head(lens) - consumed>> \o Tail(lens)
                     ELSE Tail(lens)
         IN  IF consumed = HEADERS_END_SIZE
             THEN [ok |-> TRUE, response |-> buffered + consumed]
             ELSE read_headers(rest, buffered + consumed)

\* A status handling that knows no NotFound.
StatusResult_NoNotFound(status, u) ==
    IF status < 0 THEN Err(OtherError("Failed to parse request status code"))
    ELSE IF status = 200 THEN Ok("unit")
    ELSE Err(Status(status, u))

\* do_request, lines 183-194: the status code of the response; status < 0
\* stands for a status line without a number.
StatusResult(status, u) ==
    IF status < 0 THEN Err(OtherError("Failed to parse request status code"))
    ELSE IF status = 200 THEN Ok("unit")
    ELSE IF status = 404 THEN Err(NotFound(u))
    ELSE Err(Status(status, u))

\* str::to_lowercase on the header names of the model.
LowerTable ==
    { <<"Content-Length", "content-length">>,
      <<"content-length", "content-length">>,
      <<"Transfer-Encoding", "transfer-encoding">>,
      <<"transfer-encoding", "transfer-encoding">>,
      <<"Content-Encoding", "content-encoding">>,
      <<"CONTENT-ENCODING", "content-encoding">>,
      <<"Content-Type", "content-type">> }

to_lowercase(name) == (CHOOSE p \in LowerTable : p[1] = name)[2]

\* str::parse::<usize> on the header values of the model.
UsizeTable == { <<"0", 0>>, <<"3", 3>> }

parse_usize(v) ==
    IF \E p \in UsizeTable : p[1] = v
    THEN Ok((CHOOSE p \in UsizeTable : p[1] = v)[2])
    ELSE Err(OtherError("invalid digit found in string"))

HttpHeader(name, value) == [name |-> name, value |-> value]

MkDecoder(kind, length) == [kind |-> kind, length |-> length]

\* A selection that reads a Content-Length before the encodings.
Decoder_new_LengthFirst(headers) ==
    LET HasHeader(n, v) ==
            \E i \in 1..Len(headers) :
                to_lowercase(headers[i].name) = n /\ headers[i].value = v
        lengths == {i \in 1..Len(headers) :
                        to_lowercase(headers[i].name) = "content-length"}
    IN  IF lengths # {}
        THEN LET length == parse_usize(
                     headers[CHOOSE i \in lengths : \A j \in lengths : i <= j].value)
             IN  IF length.ok THEN Ok(MkDecoder("Unencoded", length.val))
                 ELSE length
        ELSE IF HasHeader("transfer-encoding", "chunked")
                /\ HasHeader("content-encoding", "gzip")
        THEN Ok(MkDecoder("ChunkedGzip", 0))
        ELSE IF HasHeader("transfer-encoding", "chunked")
        THEN Ok(MkDecoder("Chunked", 0))
        ELSE IF HasHeader("content-encoding", "gzip")
        THEN Ok(MkDecoder("Gzip", 0))
        ELSE Err(OtherError("Could not resolve encoding of HTTP response"))

\* Decoder::new
Decoder_new(headers) ==
    LET content_length == {i \in 1..Len(headers) :
                              to_lowercase(headers[i].name) = "content-length"}
        is_chunked == \E i \in 1..Len(headers) :
                          /\ to_lowercase(headers[i].name) = "transfer-encoding"
                          /\ headers[i].value = "chunked"
        is_gzipped == \E i \in 1..Len(headers) :
                          /\ to_lowercase(headers[i].name) = "content-encoding"
                          /\ headers[i].value = "gzip"
    IN  IF is_chunked /\ is_gzipped THEN Ok(MkDecoder("ChunkedGzip", 0))
        ELSE IF is_chunked THEN Ok(MkDecoder("Chunked", 0))
        ELSE IF is_gzipped THEN Ok(MkDecoder("Gzip", 0))
        ELSE IF content_length # {}
        THEN LET length == parse_usize(
                     headers[CHOOSE i \in content_length :
                                \A j \in content_length : i <= j].value)
             IN  IF length.ok THEN Ok(MkDecoder("Unencoded", length.val))
                 ELSE length
        ELSE Err(OtherError("Could not resolve encoding of HTTP response"))

\* The connection a Decoder reads from: avail bytes arrive on it before the
\* peer closes it (the body first, then whatever follows it), and the k-th
\* read call gets at most reads[k] bytes at once (all there is when reads is
\* used up).
MkStream(avail, reads) == [avail |-> avail, reads |-> reads]

\* Decoder::read, the Unencoded arm: stream.take(length - consumed).read(buf).
\* A Take with limit 0 returns 0 without reading; the stream's read returns
\* 0 when the peer has closed the connection.
Decoder_read(d, stream) ==
    LET limit == d.length - d.consumed
        want == IF stream.reads = <<>> THEN limit ELSE Min(Head(stream.reads), limit)
        consumed == Min(want, stream.avail)
    IN  [n |-> consumed,
         decoder |-> [d EXCEPT !.consumed = d.consumed + consumed],
         stream |-> MkStream(stream.avail - consumed,
                             IF stream.reads = <<>> THEN <<>> ELSE Tail(stream.reads))]

\* io::copy on the Decoder: read until a read returns 0.  trace: the value of
\* consumed after every read; yielded: the bytes handed to the writer.
RECURSIVE io_copy(_, _, _, _)
io_copy(d, stream, yielded, trace) ==
    LET r == Decoder_read(d, stream)
    IN  IF r.n = 0
        THEN [decoder |-> r.decoder, stream |-> r.stream, yielded |-> yielded,
              trace |-> Append(trace, r.decoder.consumed)]
        ELSE io_copy(r.decoder, r.stream, yielded + r.n,
                     Append(trace, r.decoder.consumed))

\* The response body of a URL: L bytes, told apart by their position.
BodyOf(L) == [i \in 1..L |-> i]

\* The URLs a request is made for: two paths of one host, another host, and
\* the first host over another scheme.
Urls ==
    { MkUrl("https", "a.invalid", 1), MkUrl("https", "a.invalid", 2),
      MkUrl("https", "b.invalid", 1), MkUrl("http", "a.invalid", 1) }

FirstUrl == MkUrl("https", "a.invalid", 1)

\* What a server answers one attempt with: the lengths of its header lines
\* (the status line first, a line of HEADERS_END_SIZE bytes last unless the
\* connection closes before), the status code and the headers.
MkResponse(lens, status, headers) ==
    [lens |-> lens, code |-> status, headers |-> headers]

Responses ==
    { MkResponse(<<17, 19, 2>>, 200, <<HttpHeader("Content-Length", "3")>>),
      MkResponse(<<17, 1500, 28, 1500, 24, 19, 2>>, 200,
                 <<HttpHeader("transfer-encoding", "chunked"),
                   HttpHeader("Content-Encoding", "gzip"),
                   HttpHeader("Content-Length", "3")>>),
      MkResponse(<<17, 4096, 24, 2>>, 200, <<HttpHeader("Content-Encoding", "gzip")>>),
      MkResponse(<<17, 26, 2>>, 200, <<HttpHeader("Content-Type", "video")>>),
      MkResponse(<<24, 19, 2>>, 404, <<HttpHeader("Content-Length", "0")>>),
      MkResponse(<<36, 19, 2>>, 500, <<HttpHeader("Content-Length", "0")>>),
      MkResponse(<<10, 2>>, -1, <<>>),
      MkResponse(<<17, 19>>, 200, <<HttpHeader("Content-Length", "3")>>) }

IdleHttp ==
    /\ hpc = "idle"
    /\ handler = Handler_new
    /\ retries = 0
    /\ cfg_retries = 0
    /\ body = <<>>
    /\ pos = 0
    /\ sink = <<>>
    /\ attempts = 0
    /\ truncated = FALSE
    /\ calls = 0
    /\ url = FirstUrl
    /\ transport = Transport_new(FirstUrl, 0)
    /\ raw = build(FirstUrl)
    /\ code = 0
    /\ attempt_err = NoError
    /\ err = NoError

\* Request::new(writer, method, url, data, agent)
InitHttp ==
    /\ hpc = "idle"
    /\ handler = Handler_new
    /\ retries = 0
    /\ cfg_retries \in 0..MaxRetries
    /\ body = <<>>
    /\ pos = 0
    /\ sink = <<>>
    /\ attempts = 0
    /\ truncated = FALSE
    /\ calls = 0
    /\ url = FirstUrl
    /\ transport = Transport_new(FirstUrl, 0)
    /\ raw = build(FirstUrl)
    /\ code = 0
    /\ attempt_err = NoError
    /\ err = NoError
    /\ IdleParse
    /\ IdleSeg

\* WriterRequest::call(u): Request::url(u), then call() is entered: retries
\* = 0 and the first do_request begins.  A new scheme or host reconnects
\* (Request::new: a new Transport, a new Handler); when that fails the error
\* is returned before call() is entered.
CallBegin ==
    /\ hpc \in {"idle", "done", "failed"}
    /\ calls < MaxCalls
    /\ calls' = calls + 1
    /\ \E u \in Urls, L \in 0..MaxBody, reconnect_ok \in BOOLEAN :
        LET how == Request_url(url, u)
        IN  /\ how = "build" => reconnect_ok
            /\ IF how = "reconnect" /\ ~reconnect_ok
               THEN /\ hpc' = "failed"
                    /\ err' = IoError("ConnectionRefused")
                    /\ UNCHANGED <<handler, retries, body, pos, sink, attempts,
                                   truncated, url, transport, raw, code,
                                   attempt_err>>
               ELSE /\ url' = u
                    /\ raw' = build(u)
                    /\ transport' = IF how = "reconnect"
                                    THEN Transport_new(u, 1 - transport.gen)
                                    ELSE transport
                    /\ handler' = IF how = "reconnect" THEN Handler_new ELSE handler
                    /\ body' = BodyOf(L)
                    /\ hpc' = "headers"
                    /\ retries' = 0
                    /\ pos' = 0
                    /\ sink' = <<>>
                    /\ attempts' = 1
                    /\ truncated' = FALSE
                    /\ code' = 0
                    /\ attempt_err' = NoError
                    /\ err' = NoError
    /\ UNCHANGED <<cfg_retries, pvars, svars>>

\* Request::call, lines 124-143: do_request returned Err(e), having seen the
\* status code c.  While retries remain and e is an io::Error of a kind
\* other than Other, call() reconnects to the same URL and runs do_request
\* again; reconnect_ok: Request::new succeeds.
CallErr(e, c) ==
    /\ attempt_err' = e
    /\ IF MayRetry(retries, cfg_retries) /\ Retryable(e)
       THEN /\ retries' = retries + 1
            /\ \E reconnect_ok \in BOOLEAN :
                IF reconnect_ok
                THEN /\ transport' = Transport_new(url, 1 - transport.gen)
                     /\ raw' = build(url)
                     /\ handler' = ResumeFrom(reconnect(handler))
                     /\ pos' = 0
                     /\ attempts' = attempts + 1
                     /\ hpc' = "headers"
                     /\ code' = 0
                     /\ UNCHANGED err
                ELSE /\ hpc' = "failed"
                     /\ err' = IoError("ConnectionRefused")
                     /\ code' = c
                     /\ UNCHANGED <<transport, raw, handler, pos, attempts>>
       ELSE /\ hpc' = "failed"
            /\ err' = e
            /\ code' = c
            /\ UNCHANGED <<retries, transport, raw, handler, pos, attempts>>

\* do_request, lines 163-198: the request is written, the headers are read,
\* the status code is taken from them and the Decoder is built.
ReadHeaders ==
    /\ hpc = "headers"
    /\ \E resp \in Responses :
        LET h == read_headers(resp.lens, 0)
            st == StatusResult(resp.code, url)
            d == Decoder_new(resp.headers)
        IN  IF ~h.ok
            THEN CallErr(IoError("UnexpectedEof"), 0)
            ELSE IF ~st.ok
            THEN CallErr(st.val, resp.code)
            ELSE IF ~d.ok
            THEN CallErr(d.val, resp.code)
            ELSE /\ hpc' = "request"
                 /\ code' = resp.code
                 /\ attempt_err' = NoError
                 /\ UNCHANGED <<handler, retries, pos, attempts, transport, raw,
                                err>>
    /\ UNCHANGED <<cfg_retries, body, sink, truncated, calls, url, pvars, svars>>

\* io::copy hands the next n decoded bytes to Handler::write.
CopyChunk ==
    /\ hpc = "request"
    /\ \E n \in 1..(Len(body) - pos) :
        LET w == Handler_write(handler, sink, SubSeq(body, pos + 1, pos + n))
        IN  /\ handler' = w.handler
            /\ sink' = w.out
            /\ pos' = pos + n
    /\ UNCHANGED <<hpc, retries, cfg_retries, body, attempts, truncated, calls,
                   url, transport, raw, code, attempt_err, err,
                   pvars, svars>>

\* do_request returns Ok(()): the decoder reached the end of the body, or
\* the decoder failed with the ignored InvalidInput.  call() leaves its
\* loop, zeroes handler.written and flushes.
AttemptOk ==
    /\ hpc = "request"
    /\ \E invalid_input \in BOOLEAN :
        /\ ~invalid_input => pos = Len(body)
        /\ truncated' = (truncated \/ (invalid_input /\ pos < Len(body)))
    /\ handler' = [handler EXCEPT !.written = 0]
    /\ hpc' = "done"
    /\ UNCHANGED <<retries, cfg_retries, body, pos, sink, attempts, calls,
                   url, transport, raw, code, attempt_err, err,
                   pvars, svars>>

\* io::copy returns an io::Error (of a kind other than InvalidInput) with the
\* body copied up to pos: do_request returns it.
AttemptErr ==
    /\ hpc = "request"
    /\ \E k \in {"ConnectionReset", "Other"} :
        CallErr(IoError(k), code)
    /\ UNCHANGED <<cfg_retries, body, sink, truncated, calls, url, pvars, svars>>

NextHttp == CallBegin \/ ReadHeaders \/ CopyChunk \/ AttemptOk \/ AttemptErr

SpecHttp == InitHttp /\ [][NextHttp]_vars

\* Every blocking read and write of the transport returns (the socket's read
\* and write timeouts, Transport::new), so a call() that has begun goes on.
SpecHttpLive ==
    /\ InitHttp
    /\ [][NextHttp]_vars
    /\ WF_vars(ReadHeaders \/ CopyChunk \/ AttemptOk \/ AttemptErr)

(***************************************************************************)
(* Playlist texts the parsers are applied to: up to MaxBlocks blocks of    *)
(* lines, with and without the final newline.                              *)
(***************************************************************************)
HttpUrl(host) == <<"http", ":", "//", host>>

MediaLine(name) == <<"#EXT-X-MEDIA", ":", "NAME", "=", QUOTE>> \o name \o <<QUOTE>>
StreamInfLine(name) ==
    <<"#EXT-X-STREAM-INF", ":", "VIDEO", "=", QUOTE>> \o name \o <<QUOTE>>
Variant(name, host) == <<MediaLine(name), StreamInfLine(name), HttpUrl(host)>>

MasterBlocks ==
    { Variant(<<"1080p", "60">>, "1080p.invalid"),
      Variant(<<"720p", "60">>, "720p60.invalid"),
      Variant(<<"720p">>, "720p30.invalid"),
      << <<"#EXT-X-TWITCH-INFO", ":", "FUTURE", "=", QUOTE, "true", QUOTE>> >>,
      << <<"#EXT-X-TWITCH-INFO", ":", "NODE", "=", QUOTE, "#EXT-X-MEDIA", "720p", QUOTE>> >>,
      << MediaLine(<<"720p">>) >> }

Qualities == { <<"best">>, <<"720p">>, <<"1080p">>, <<"480p">> }

ExtInf(secs) == <<"#EXTINF", ":", secs, ",", "live">>
ExtInfAd(secs) == <<"#EXTINF", ":", secs, ",", "Amazon", "|", "1">>
Prefetch(host) == <<"#EXT-X-TWITCH-PREFETCH", ":">> \o HttpUrl(host)

MediaBlocks ==
    { << ExtInf("0.978"), HttpUrl("a.invalid") >>,
      << ExtInfAd("2.000"), HttpUrl("ad.invalid") >>,
      << ExtInf("0.978") >>,
      << <<"#EXTINF", ":", "live">> >>,
      << Prefetch("next-prefetch-url.invalid") >>,
      << Prefetch("next-prefetch-url.invalid"),
         Prefetch("newest-prefetch-url.invalid") >>,
      << <<"#EXT-X-MAP", ":", "URI", "=", QUOTE>> \o HttpUrl("header.invalid") \o <<QUOTE>> >>,
      << <<"#EXT-X-MAP", ":", "URI", "=", QUOTE>> \o HttpUrl("h2.invalid")
            \o <<QUOTE, ",", "BYTERANGE", "=", QUOTE, "1@0", QUOTE>> >>,
      << <<"#EXT-X-MAP">> >> }

BlockSeqs(blocks) == UNION { [1..k -> blocks] : k \in 0..MaxBlocks }

Bodies(blocks) ==
    LET full == { Join(Flatten(bs)) : bs \in BlockSeqs(blocks) }
    IN  full \cup { SubSeq(b, 1, Len(b) - 1) : b \in full \ {<<>>} }

\* Bodies a playlist request is answered with at the end of a stream: a
\* segment entry, the end tag alone and with text after it, an empty line.
ReloadBlocks ==
    { << ExtInf("0.978"), HttpUrl("a.invalid") >>,
      << <<"#EXT-X-ENDLIST">> >>,
      << <<"#EXT-X-ENDLIST", ":", "x">> >>,
      << <<>> >> }

\* The errors a request can fail with: http::Error::NotFound, http::Error::
\* Status, an io::Error, a parse error.
HttpErrors == {"NotFound", "Status", "Io", "Parse"}

\* The playlist a MediaPlaylist holds when it reloads.
OldPlaylist == Join(<< ExtInf("2.000"), HttpUrl("old.invalid") >>)

\* The response of the request a parser input stands for.
RespOf(in) == IF in.error = "none" THEN Ok(in.playlist) ELSE Err(in.error)

\* The lengths of header lines: the line that ends the headers, a status
\* line, a long line, and lines longer than MAX_HEADERS_SIZE.
LineLens == {2, 17, 1500, 2050, 4096}

\* The headers the Decoder is chosen by, in several spellings.
HeaderSet ==
    { HttpHeader("Transfer-Encoding", "chunked"),
      HttpHeader("transfer-encoding", "chunked"),
      HttpHeader("Transfer-Encoding", "identity"),
      HttpHeader("Content-Encoding", "gzip"),
      HttpHeader("CONTENT-ENCODING", "gzip"),
      HttpHeader("Content-Length", "3"),
      HttpHeader("content-length", "0"),
      HttpHeader("Content-Type", "video") }

NoResponse == MkResponse(<<>>, 0, <<>>)

ParseInput(kind, text, quality, error, resp) ==
    [kind |-> kind, playlist |-> text, quality |-> quality, error |-> error,
     resp |-> resp, args |-> [servers |-> None, low_latency |-> FALSE],
     prev |-> Unknown, segs |-> <<>>,
     elapsed |-> <<>>, stream |-> [avail |-> 0, reads |-> <<>>],
     req |-> [data |-> <<>>, headers |-> <<>>, events |-> <<>>]]

\* What a proxy server answers: a master playlist (with and without the
\* FUTURE token), 404, another status, an I/O error, or no connection.
MasterBody(name, host, future) ==
    Join(Variant(name, host)
         \o (IF future
             THEN << <<"#EXT-X-TWITCH-INFO", ":", "FUTURE", "=", QUOTE, "true", QUOTE>> >>
             ELSE <<>>))

ServerAnswers ==
    { Ok(MasterBody(<<"720p">>, "p1.invalid", TRUE)),
      Ok(MasterBody(<<"720p">>, "p2.invalid", FALSE)),
      Err("NotFound"), Err("Status"), Err("Connect") }

\* Segments of every variant, with two URLs and with Durations that differ in
\* length and in was_capped.
TestSegments ==
    LET ds == { [is_ad |-> FALSE, was_capped |-> FALSE, inner |-> 2000],
                [is_ad |-> FALSE, was_capped |-> TRUE, inner |-> 5000] }
        us == { HttpUrl("a.invalid"), HttpUrl("b.invalid") }
    IN  { Normal(d, u) : d \in ds, u \in us }
        \cup { NextPrefetch(d, u) : d \in ds, u \in us }
        \cup { NewestPrefetch(u) : u \in us }
        \cup { Unknown }

\* Durations as Duration::from_str and Duration::sleep leave them, and the
\* times elapsed at two consecutive sleeps on one Duration.
SleepInputs ==
    LET ds == { [is_ad |-> FALSE, was_capped |-> FALSE, inner |-> ms] :
                    ms \in {978, 2000, 2999, 3000, 5000} }
               \cup { [is_ad |-> FALSE, was_capped |-> TRUE, inner |-> 5000] }
        es == {0, 100, 2500, 6000}
    IN  { [ParseInput("sleep", <<>>, <<>>, "none", NoResponse)
              EXCEPT !.segs = << Normal(d, HttpUrl("a.invalid")) >>,
                     !.elapsed = <<e1, e2>>] :
            d \in ds, e1 \in es, e2 \in es }

\* Segment lists find_next is called on (as MediaPlaylist::segments builds
\* them, and with a URL listed twice), and the prev_segment searched for.
FindNextInputs ==
    LET d == [is_ad |-> FALSE, was_capped |-> FALSE, inner |-> 2000]
        a == HttpUrl("a.invalid")
        b == HttpUrl("b.invalid")
        c == HttpUrl("c.invalid")
        listed == { Normal(d, a), Normal(d, b), NextPrefetch(d, a),
                    NextPrefetch(d, c), NewestPrefetch(c) }
    IN  { [ParseInput("find_next", <<>>, <<>>, "none", NoResponse)
              EXCEPT !.prev = prev, !.segs = l] :
            prev \in TestSegments \cup {NewestPrefetch(c)},
            l \in BlockSeqs(listed) }

\* The sessions MasterPlaylist::new is called for: args.servers (each server
\* with the answer it gives), args.quality, args.low_latency and the answer
\* of the Twitch playlist request.
SessionInput(kind, servers, quality, low_latency, text, error) ==
    [ParseInput(kind, text, quality, error, NoResponse)
        EXCEPT !.args = [servers |-> servers, low_latency |-> low_latency]]

SessionInputs ==
    LET lists == UNION { [1..k -> ServerAnswers] : k \in 1..MaxServers }
    IN  { SessionInput("proxy", Some(l), q, FALSE, <<>>, "none") :
            l \in lists, q \in {<<"best">>, <<"1080p">>} }
        \cup { SessionInput("session", Some(l), <<"best">>, ll, <<>>, "none") :
            l \in lists, ll \in BOOLEAN }
        \cup { SessionInput("session", None, <<"720p">>, ll,
                             MasterBody(<<"720p">>, "t.invalid", f), "none") :
            ll \in BOOLEAN, f \in BOOLEAN }
        \cup { SessionInput("session", None, <<"720p">>, ll, <<>>, e) :
            ll \in BOOLEAN, e \in HttpErrors }

\* Bodies framed by Content-Length on a connection that delivers avail more
\* bytes: fewer than the body has (the peer closes early), exactly the body,
\* or the body and the beginning of the next response.
ReadInputs ==
    { [ParseInput("read", <<>>, <<>>, "none",
                  MkResponse(<<>>, 200, <<HttpHeader("Content-Length", n)>>))
          EXCEPT !.stream = MkStream(avail, reads)] :
        n \in {"0", "3"}, avail \in 0..MaxAvail,
        reads \in UNION { [1..k -> 1..2] : k \in 0..MaxReads } }

\* Requests as playlist.rs builds them (a GET without data, a POST with
\* data, headers added with header()) and what follows the first attempt:
\* retries of the call, calls after url() to the same host (and port), to
\* another port of it and to another host.
RequestInputs ==
    LET headers == { <<"Client-Id", "x">>, <<"Authorization", "OAuth">> }
        events == { [kind |-> "retry", url |-> MkPortUrl("", 0, 0)],
                    [kind |-> "url", url |-> MkPortUrl("a.invalid", 443, 2)],
                    [kind |-> "url", url |-> MkPortUrl("a.invalid", 8443, 1)],
                    [kind |-> "url", url |-> MkPortUrl("b.invalid", 443, 1)] }
    IN  { [ParseInput("request", <<>>, <<>>, "none", NoResponse)
              EXCEPT !.req = [data |-> d, headers |-> hs, events |-> evs]] :
            d \in {<<>>, <<"{", "}">>},
            hs \in UNION { [1..k -> headers] : k \in 0..MaxEvents },
            evs \in UNION { [1..k -> events] : k \in 0..MaxEvents } }

\* The inputs of one kind.
ParseInputs(kind) ==
    CASE kind = "master" ->
            { ParseInput("master", b, q, "none", NoResponse) :
                b \in Bodies(MasterBlocks), q \in Qualities }
      [] kind = "media" ->
            { ParseInput("media", b, <<>>, "none", NoResponse) :
                b \in Bodies(MediaBlocks) }
      [] kind = "reload" ->
            { ParseInput("reload", b, <<>>, "none", NoResponse) :
                b \in Bodies(ReloadBlocks) }
            \cup { ParseInput("reload", <<>>, <<>>, e, NoResponse) : e \in HttpErrors }
      [] kind = "fetch" ->
            { ParseInput("fetch", Join(Flatten(<<b>>)), q, "none", NoResponse) :
                b \in MasterBlocks, q \in Qualities }
            \cup { ParseInput("fetch", <<>>, q, e, NoResponse) :
                q \in Qualities, e \in HttpErrors }
      [] kind = "headers" ->
            { ParseInput("headers", <<>>, <<>>, "none", MkResponse(ls, 200, <<>>)) :
                ls \in BlockSeqs(LineLens) }
      [] kind = "decoder" ->
            { ParseInput("decoder", <<>>, <<>>, "none", MkResponse(<<>>, 200, hs)) :
                hs \in BlockSeqs(HeaderSet) }
      [] kind = "session" -> SessionInputs
      [] kind = "read" -> ReadInputs
      [] kind = "request" -> RequestInputs
      [] kind = "sleep" -> SleepInputs
      [] kind = "find_next" -> FindNextInputs
      [] kind = "eq" ->
            { [ParseInput("eq", <<>>, <<>>, "none", NoResponse)
                    EXCEPT !.segs = <<a, b, c>>] :
                a \in TestSegments, b \in TestSegments, c \in TestSegments }

InitParse ==
    /\ \E kind \in {"master", "media", "reload", "fetch", "headers", "decoder",
                    "session", "read", "request", "sleep", "find_next", "eq"} :
            pIn \in ParseInputs(kind)
    /\ pOp = "none"
    /\ pOut = None
    /\ IdleHttp
    /\ IdleSeg

ApplyParseVariant ==
    /\ pOp = "none" /\ pIn.kind = "master"
    /\ pOp' = "parse_variant_playlist"
    /\ pOut' = parse_variant_playlist(pIn.playlist, pIn.quality)
    /\ UNCHANGED <<pIn, hvars, svars>>

ApplySegments ==
    /\ pOp = "none" /\ pIn.kind = "media"
    /\ pOp' = "segments"
    /\ pOut' = segments(pIn.playlist)
    /\ UNCHANGED <<pIn, hvars, svars>>

ApplyHeader ==
    /\ pOp = "none" /\ pIn.kind = "media"
    /\ pOp' = "header"
    /\ pOut' = Header_from_str(pIn.playlist)
    /\ UNCHANGED <<pIn, hvars, svars>>

ApplyReload ==
    /\ pOp = "none" /\ pIn.kind = "reload"
    /\ pOp' = "reload"
    /\ pOut' = MediaPlaylist_reload(OldPlaylist, RespOf(pIn))
    /\ UNCHANGED <<pIn, hvars, svars>>

ApplyFetchTwitch ==
    /\ pOp = "none" /\ pIn.kind = "fetch"
    /\ pOp' = "fetch_twitch_playlist"
    /\ pOut' = fetch_twitch_playlist(RespOf(pIn), pIn.quality)
    /\ UNCHANGED <<pIn, hvars, svars>>

ApplyReadHeaders ==
    /\ pOp = "none" /\ pIn.kind = "headers"
    /\ pOp' = "read_headers"
    /\ pOut' = read_headers(pIn.resp.lens, 0)
    /\ UNCHANGED <<pIn, hvars, svars>>

ApplyDecoderNew ==
    /\ pOp = "none" /\ pIn.kind = "decoder"
    /\ pOp' = "Decoder_new"
    /\ pOut' = Decoder_new(pIn.resp.headers)
    /\ UNCHANGED <<pIn, hvars, svars>>

\* io::copy(&mut Decoder::new(stream, headers)?, writer).
ApplyDecoderRead ==
    /\ pOp = "none" /\ pIn.kind = "read"
    /\ pOp' = "read"
    /\ \E d \in {Decoder_new(pIn.resp.headers)} :
        pOut' = io_copy([kind |-> d.val.kind, length |-> d.val.length,
                         consumed |-> 0], pIn.stream, 0, <<>>)
    /\ UNCHANGED <<pIn, hvars, svars>>

\* Request::new, header() for every header of the caller, then the attempts.
ApplyRequest ==
    /\ pOp = "none" /\ pIn.kind = "request"
    /\ pOp' = "request"
    /\ pOut' = WireRequests(AddHeaders(Request_new(MkPortUrl("a.invalid", 443, 1),
                                                   pIn.req.data),
                                       pIn.req.headers),
                            pIn.req.events)
    /\ UNCHANGED <<pIn, hvars, svars>>

ApplyFetchProxy ==
    /\ pOp = "none" /\ pIn.kind = "proxy"
    /\ pOp' = "fetch_proxy_playlist"
    /\ pOut' = fetch_proxy_playlist(pIn.args.servers.v, pIn.quality)
    /\ UNCHANGED <<pIn, hvars, svars>>

ApplyMasterNew ==
    /\ pOp = "none" /\ pIn.kind = "session"
    /\ pOp' = "MasterPlaylist_new"
    /\ pOut' = MasterPlaylist_new(
                    [servers |-> pIn.args.servers, quality |-> pIn.quality,
                     low_latency |-> pIn.args.low_latency],
                    RespOf(pIn))
    /\ UNCHANGED <<pIn, hvars, svars>>

\* Segment::eq on the pairs of three segments.
ApplySegEq ==
    /\ pOp = "none" /\ pIn.kind = "eq"
    /\ pOp' = "eq"
    /\ pOut' = [ab |-> SegEq(pIn.segs[1], pIn.segs[2]),
                ba |-> SegEq(pIn.segs[2], pIn.segs[1]),
                bc |-> SegEq(pIn.segs[2], pIn.segs[3]),
                ac |-> SegEq(pIn.segs[1], pIn.segs[3]),
                aa |-> SegEq(pIn.segs[1], pIn.segs[1])]
    /\ UNCHANGED <<pIn, hvars, svars>>

\* Duration::sleep twice on one Duration.
ApplySleep ==
    /\ pOp = "none" /\ pIn.kind = "sleep"
    /\ pOp' = "sleep"
    /\ \E first \in {Duration_sleep(pIn.segs[1].duration, pIn.elapsed[1])} :
            pOut' = [first |-> first,
                     second |-> Duration_sleep(first.duration, pIn.elapsed[2])]
    /\ UNCHANGED <<pIn, hvars, svars>>

ApplyFindNext ==
    /\ pOp = "none" /\ pIn.kind = "find_next"
    /\ pOp' = "find_next"
    /\ pOut' = find_next(pIn.prev, pIn.segs)
    /\ UNCHANGED <<pIn, hvars, svars>>

NextParse ==
    \/ ApplyFindNext
    \/ ApplySleep
    \/ ApplySegEq
    \/ ApplyFetchProxy
    \/ ApplyMasterNew
    \/ ApplyParseVariant
    \/ ApplySegments
    \/ ApplyHeader
    \/ ApplyReload
    \/ ApplyFetchTwitch
    \/ ApplyReadHeaders
    \/ ApplyDecoderNew
    \/ ApplyDecoderRead
    \/ ApplyRequest

SpecParse == InitParse /\ [][NextParse]_vars

(***************************************************************************)
(* One stream session: the server's live playlist, the main thread's loop  *)
(* "reload, process" over hls::segment::Handler, and the worker thread.    *)
(***************************************************************************)
ChanDepth == 2

\* Time process() finds elapsed since the reload began, in milliseconds.
Elapsed == {100, 3000}

\* Segment n of the stream: its URL and the text of its #EXTINF duration.
SegHost(n) == "seg" \o ToString(n) \o ".invalid"
SegUrl(n) == HttpUrl(SegHost(n))
SegSecs(n) == IF n % 2 = 0 THEN "5.0" ELSE "2.000"

\* The #EXTINF entries of the segments lo..hi.
RECURSIVE EntryLines(_, _, _)
EntryLines(lo, hi, ads) ==
    IF lo > hi THEN <<>>
    ELSE << (IF lo \in ads THEN ExtInfAd(SegSecs(lo)) ELSE ExtInf(SegSecs(lo))),
            SegUrl(lo) >> \o EntryLines(lo + 1, hi, ads)

\* The body the server answers a playlist request with; ended: the stream
\* is over.
Serialize(s, ended) ==
    Join( << <<"#EXTM3U">> >>
          \o EntryLines(s.lo, s.hi, s.ads)
          \o [i \in 1..s.pre |-> Prefetch(SegHost(s.hi + i))]
          \o (IF ended THEN << <<"#EXT-X-ENDLIST">> >> ELSE <<>>) )

\* The live playlist is a sliding window of an append-only stream: both its
\* edges only move forward (by at most two segments between two reloads), at
\* most MaxWin segments are listed with #EXTINF and at most two more as
\* prefetch lines.  Whether a segment is an ad shows when it is first listed
\* with #EXTINF, and is forgotten when it has left the window.
SrvNext(s) ==
    { t \in [lo : s.lo..(s.lo + 2), hi : s.hi..(s.hi + 2), pre : 0..2,
             ads : SUBSET (1..MaxSeg)] :
        /\ t.lo <= t.hi + 1
        /\ t.hi - t.lo + 1 <= MaxWin
        /\ t.hi + t.pre <= MaxSeg
        /\ t.hi + t.pre >= s.hi + s.pre
        /\ t.ads \subseteq t.lo..t.hi
        /\ t.ads \cap (1..s.hi) = s.ads \cap (t.lo..t.hi) }

\* A call that does not replace the URL of a request that already has one.
WriterRequest_call_Stale(request_url, u) ==
    IF request_url = <<>> THEN u ELSE request_url

\* WriterRequest::call: the URL the request is for once url() has run.
WriterRequest_call(request_url, u) == u

\* The main loop reloads the playlist (Handler::reload); Offline ends the
\* session cleanly, any other error ends it with a failure.  The session is
\* followed until it has handed MaxSent URLs to the worker.
Reload ==
    /\ mpc = "reload"
    /\ Len(sent) < MaxSent
    /\ \E answer \in {"ok", "ended", "NotFound", "Io"} :
        \E s \in (IF answer = "ok" THEN SrvNext(srv) ELSE {srv}) :
            LET resp == IF answer \in {"ok", "ended"}
                        THEN Ok(Serialize(s, answer = "ended"))
                        ELSE Err(answer)
            IN  \E r \in {MediaPlaylist_reload(playlist, resp)} :
                /\ srv' = s
                /\ playlist' = r.playlist
                /\ mpc' = IF r.result.ok THEN "process"
                          ELSE IF r.result.val = "Offline" THEN "offline"
                          ELSE "error"
    /\ UNCHANGED <<prev_segment, init, pending, sent, cycle, chan, sync_ack,
                   wvars, pvars, hvars>>

\* Handler::process up to its return or, when it hands a URL over with
\* sync_url, up to the point where it waits for the worker's answer.  A full
\* channel blocks the call.
ProcessStep ==
    /\ mpc = "process"
    /\ \E elapsed \in Elapsed :
      \E r \in {process(playlist, prev_segment, init, elapsed)} :
        LET n == Len(r.msgs)
            sync == n > 0 /\ r.msgs[n].kind = "SyncUrl"
        IN  /\ Len(chan) + n <= ChanDepth
            /\ Len(sent) + n <= MaxSent
            /\ chan' = chan \o r.msgs
            /\ sent' = sent \o [i \in 1..n |-> r.msgs[i].url]
            /\ init' = r.init
            /\ cycle' = [status |-> r.status, branch |-> r.branch, n |-> n,
                         prev_before |-> prev_segment,
                         notice |-> (r.branch = "unknown" /\ ~init)]
            /\ IF r.status = "err"
               THEN mpc' = "error" /\ UNCHANGED <<prev_segment, pending>>
               ELSE IF sync
               THEN /\ mpc' = "sync_wait"
                    /\ pending' = r.prev
                    /\ UNCHANGED prev_segment
               ELSE /\ mpc' = "reload"
                    /\ prev_segment' = r.prev
                    /\ UNCHANGED pending
    /\ UNCHANGED <<srv, playlist, sync_ack, wvars, pvars, hvars>>

\* A sync_url that returns without the worker's answer.
SyncReturn_NoHandshake ==
    /\ mpc = "sync_wait"
    /\ sync_ack' = FALSE
    /\ prev_segment' = pending
    /\ mpc' = "reload"
    /\ UNCHANGED <<srv, playlist, init, pending, sent, cycle, chan, wvars,
                   pvars, hvars>>

\* Worker::sync_url returns: the worker has taken the URL; process() assigns
\* prev_segment and returns.
SyncReturn ==
    /\ mpc = "sync_wait"
    /\ sync_ack
    /\ sync_ack' = FALSE
    /\ prev_segment' = pending
    /\ mpc' = "reload"
    /\ UNCHANGED <<srv, playlist, init, pending, sent, cycle, chan, wvars,
                   pvars, hvars>>

\* The worker takes the oldest message, answers a SyncUrl and starts the
\* request; a NotFound answer skips the segment.
WorkerRecv ==
    /\ wpc = "idle"
    /\ chan # <<>>
    /\ chan' = Tail(chan)
    /\ sync_ack' = (Head(chan).kind = "SyncUrl" \/ sync_ack)
    /\ wurl' = WriterRequest_call(wurl, Head(chan).url)
    /\ wpos' = 0
    /\ \E found \in BOOLEAN :
        IF found
        THEN wpc' = "busy" /\ UNCHANGED skipped
        ELSE wpc' = "idle" /\ skipped' = skipped \cup {Len(sent) - Len(chan) + 1}
    /\ UNCHANGED <<mvars, player, pvars, hvars>>

\* The worker's request writes the next byte of the body to the player.
WorkerWrite ==
    /\ wpc = "busy"
    /\ wpos < SegLen
    /\ wpos' = wpos + 1
    /\ player' = Append(player, <<wurl, wpos + 1>>)
    /\ UNCHANGED <<mvars, chan, sync_ack, wpc, wurl, skipped, pvars, hvars>>

\* The request is complete; the worker waits for the next message.
WorkerFinish ==
    /\ wpc = "busy"
    /\ wpos = SegLen
    /\ wpc' = "idle"
    /\ UNCHANGED <<mvars, chan, sync_ack, wurl, wpos, player, skipped, pvars,
                   hvars>>

\* A worker that ends as soon as the sender is gone, whatever is queued.
WorkerExit_Early ==
    /\ wpc = "idle"
    /\ mpc \in {"offline", "error"}
    /\ wpc' = "exited"
    /\ UNCHANGED <<mvars, chan, sync_ack, wurl, wpos, player, skipped, pvars,
                   hvars>>

\* The main loop has returned, which drops the channel's sender: the worker's
\* receive fails once the channel is empty and its thread ends.
WorkerExit ==
    /\ wpc = "idle"
    /\ chan = <<>>
    /\ mpc \in {"offline", "error"}
    /\ wpc' = "exited"
    /\ UNCHANGED <<mvars, chan, sync_ack, wurl, wpos, player, skipped, pvars,
                   hvars>>

InitSeg == IdleSeg /\ IdleParse /\ IdleHttp

NextSeg ==
    \/ Reload
    \/ ProcessStep
    \/ SyncReturn
    \/ WorkerRecv
    \/ WorkerWrite
    \/ WorkerFinish
    \/ WorkerExit

SpecSeg == InitSeg /\ [][NextSeg]_vars

\* The worker thread is scheduled, and the sink takes what it is written.
SpecSegLive ==
    /\ InitSeg
    /\ [][NextSeg]_vars
    /\ WF_vars(WorkerRecv \/ WorkerWrite \/ WorkerFinish \/ WorkerExit)

(***************************************************************************)
(* The worker's channel by itself: the main thread hands over one URL per  *)
(* cycle with Worker::url or Worker::sync_url, whatever segment its        *)
(* playlist made it choose, and the worker thread serves the channel.      *)
(***************************************************************************)
\* A channel that takes every message at once.
send_Unbounded(c, msg) == [ok |-> TRUE, chan |-> Append(c, msg)]

\* The bounded channel's send: the message is queued when there is room,
\* otherwise the sender stays blocked.
send(c, msg) ==
    IF Len(c) < ChanDepth
    THEN [ok |-> TRUE, chan |-> Append(c, msg)]
    ELSE [ok |-> FALSE, chan |-> c]

\* Worker::url: send Url(u) and return.
Worker_url ==
    /\ mpc = "reload"
    /\ Len(sent) < MaxSent
    /\ \E n \in 1..MaxSeg :
        \E r \in {send(chan, [kind |-> "Url", url |-> SegUrl(n)])} :
            /\ r.ok
            /\ chan' = r.chan
            /\ sent' = Append(sent, SegUrl(n))
    /\ UNCHANGED <<srv, playlist, mpc, prev_segment, init, pending, cycle,
                   sync_ack, wvars, pvars, hvars>>

\* Worker::sync_url: send SyncUrl(u), then wait for the worker's answer.
Worker_sync_url ==
    /\ mpc = "reload"
    /\ Len(sent) < MaxSent
    /\ \E n \in 1..MaxSeg :
        \E r \in {send(chan, [kind |-> "SyncUrl", url |-> SegUrl(n)])} :
            /\ r.ok
            /\ chan' = r.chan
            /\ sent' = Append(sent, SegUrl(n))
            /\ pending' = NewestPrefetch(SegUrl(n))
    /\ mpc' = "sync_wait"
    /\ UNCHANGED <<srv, playlist, prev_segment, init, cycle, sync_ack, wvars,
                   pvars, hvars>>

NextChan ==
    \/ Worker_url
    \/ Worker_sync_url
    \/ SyncReturn
    \/ WorkerRecv
    \/ WorkerWrite
    \/ WorkerFinish

SpecChan == InitSeg /\ [][NextChan]_vars

(***************************************************************************)
(* main.rs: the orchestrator loop of main.  A player session begins with   *)
(* a new IOThread and a new MediaPlaylist; the variables of the session    *)
(* stand for main's locals:                                                *)
(*     mpc           "start" (at the top of the outer loop), "loop" (at    *)
(*                   the top of the inner loop), "exited" (main returned   *)
(*                   Ok), "error" (main returned Err)                      *)
(*     prev_segment  segment, the segment catch_up or reload returned last *)
(*     sent          the segments whose URL was sent to the IO thread of   *)
(*                   the running player session, in order                  *)
(*     cycle.status  what playlist.reload() returned in the last iteration *)
(***************************************************************************)
\* A segment as MediaPlaylist::catch_up and reload return it.
MkSegment(seq, u) == [media_sequence |-> seq, url |-> u]

\* A comparison that never finds two sequence numbers equal.
Ordering_cmp_GreaterOrEqual(a, b) == IF a >= b THEN "Greater" ELSE "Less"

\* segment.media_sequence.cmp(&prev_media_sequence)
Ordering_cmp(a, b) ==
    IF a > b THEN "Greater" ELSE IF a = b THEN "Equal" ELSE "Less"

InitMain ==
    /\ IdleParse
    /\ IdleHttp
    /\ srv = [lo |-> 1, hi |-> 0, pre |-> 0, ads |-> {}]
    /\ playlist = <<>>
    /\ mpc = "start"
    /\ prev_segment = MkSegment(0, <<>>)
    /\ init = TRUE
    /\ pending = Unknown
    /\ chan = <<>>
    /\ sync_ack = FALSE
    /\ wpc = "idle"
    /\ wurl = <<>>
    /\ wpos = 0
    /\ player = <<>>
    /\ sent = <<>>
    /\ skipped = {}
    /\ cycle = NoCycle

\* Lines 128-132: IOThread::new, MediaPlaylist::new and catch_up (each may
\* fail, which ends main), then the URL of the catch-up segment is sent.
MainStart ==
    /\ mpc = "start"
    /\ cycle' = NoCycle
    /\ \E started \in BOOLEAN, send_ok \in BOOLEAN :
        \E seq \in 0..MaxSeg, n \in 1..2 :
            IF ~started
            THEN /\ mpc' = "error"
                 /\ sent' = <<>>
                 /\ UNCHANGED prev_segment
            ELSE /\ prev_segment' = MkSegment(seq, SegUrl(n))
                 /\ IF send_ok
                    THEN sent' = <<MkSegment(seq, SegUrl(n))>> /\ mpc' = "loop"
                    ELSE sent' = <<>> /\ mpc' = "error"
    /\ UNCHANGED <<srv, playlist, init, pending, chan, sync_ack, wvars, pvars,
                   hvars>>

\* Lines 134-170, one iteration of the inner loop: playlist.reload(), the
\* match on its error, the comparison of the media sequences and send_url.
MainLoop ==
    /\ mpc = "loop"
    /\ \E result \in {"ok", "NotFound", "Discontinuity", "Other"},
          send_ok \in BOOLEAN :
        \E seq \in 0..MaxSeg, n \in 1..2 :
            LET prev_media_sequence == prev_segment.media_sequence
                segment == MkSegment(seq, SegUrl(n))
                ordering == Ordering_cmp(seq, prev_media_sequence)
            IN  /\ cycle' = [NoCycle EXCEPT !.status = result]
                /\ IF result = "NotFound"
                   THEN mpc' = "exited" /\ UNCHANGED <<prev_segment, sent>>
                   ELSE IF result = "Discontinuity"
                   THEN mpc' = "start" /\ UNCHANGED <<prev_segment, sent>>
                   ELSE IF result = "Other"
                   THEN mpc' = "error" /\ UNCHANGED <<prev_segment, sent>>
                   ELSE /\ prev_segment' = segment
                        /\ IF ordering = "Greater"
                           THEN IF send_ok
                                THEN sent' = Append(sent, segment) /\ mpc' = "loop"
                                ELSE sent' = sent /\ mpc' = "error"
                           ELSE IF ordering = "Equal"
                           THEN sent' = sent /\ mpc' = "loop"
                           ELSE sent' = sent /\ mpc' = "error"
    /\ UNCHANGED <<srv, playlist, init, pending, chan, sync_ack, wvars, pvars,
                   hvars>>

NextMain == MainStart \/ MainLoop

SpecMain == InitMain /\ [][NextMain]_vars

(***************************************************************************)
(*                               CLAIMS                                    *)
(***************************************************************************)
pLines == Lines(pIn.playlist)

\* Line i is a match point of the variant search as the code computes it.
MediaMatch(i) ==
    /\ Contains(pLines[i], <<"#EXT-X-MEDIA">>)
    /\ (Contains(pLines[i], pIn.quality) \/ pIn.quality = <<"best">>)

\* Line i is a match point as the claim states it: the line begins with the tag.
MediaMatchBegins(i) ==
    /\ StartsWith(pLines[i], <<"#EXT-X-MEDIA">>)
    /\ (Contains(pLines[i], pIn.quality) \/ pIn.quality = <<"best">>)

\* C5 as stated: parse_variant_playlist returns the URL line of the triple
\* that starts at the first line which BEGINS with #EXT-X-MEDIA and contains
\* the quality label (any such line with quality "best").
C5_Original ==
    pOp = "parse_variant_playlist" =>
        \A i \in 1..Len(pLines) :
            ( /\ MediaMatchBegins(i)
              /\ \A j \in 1..(i - 1) : ~MediaMatchBegins(j)
              /\ i + 2 <= Len(pLines) )
            => (pOut.ok /\ pOut.val.url = pLines[i + 2])

\* C5 (amended): parse_variant_playlist returns the second line after the
\* first line that CONTAINS #EXT-X-MEDIA and contains the quality label (any
\* such line with quality "best"), and fails when there is no such line or
\* fewer than two lines follow it.
C5_VariantSelection ==
    pOp = "parse_variant_playlist" =>
        /\ pOut.ok =>
            \E i \in 1..Len(pLines) :
                /\ MediaMatch(i)
                /\ \A j \in 1..(i - 1) : ~MediaMatch(j)
                /\ i + 2 <= Len(pLines)
                /\ pOut.val.url = pLines[i + 2]
        /\ ~pOut.ok =>
            \A i \in 1..Len(pLines) :
                (MediaMatch(i) /\ \A j \in 1..(i - 1) : ~MediaMatch(j))
                    => i + 2 > Len(pLines)

\* Quality "720p" selected the 720p60 entry although a 720p30 entry follows.
C5_Witness ==
    /\ pOp = "parse_variant_playlist"
    /\ pIn.quality = <<"720p">>
    /\ pOut.ok
    /\ pOut.val.url = HttpUrl("720p60.invalid")
    /\ Contains(pIn.playlist, HttpUrl("720p30.invalid"))

PrefetchLines == {i \in 1..Len(pLines) : is_prefetch_segment(pLines[i])}
ExtInfLines == {i \in 1..Len(pLines) : StartsWith(pLines[i], <<"#EXTINF">>)}

EndsWithTwoPrefetch ==
    /\ Len(pLines) >= 2
    /\ {Len(pLines) - 1, Len(pLines)} \subseteq PrefetchLines

\* The two segments C6 expects at the end of the list.
ExpectedPrefetchTail ==
    LET n == Len(pLines)
        e == CHOOSE i \in ExtInfLines : \A j \in ExtInfLines : j <= i
        d == Duration_from_str(pLines[e]).val
    IN  << NextPrefetch([is_ad |-> d.is_ad, was_capped |-> FALSE, inner |-> d.inner],
                        SplitOnce(pLines[n - 1], ":").after),
           NewestPrefetch(SplitOnce(pLines[n], ":").after) >>

PrefetchTailIsExpected ==
    /\ Len(pOut.val) >= 2
    /\ SubSeq(pOut.val, Len(pOut.val) - 1, Len(pOut.val)) = ExpectedPrefetchTail

\* C6 as stated: for every media playlist ending with two consecutive
\* #EXT-X-TWITCH-PREFETCH lines (on which segments() succeeds), the list ends
\* with NextPrefetch(d, url1), NewestPrefetch(url2).
C6_Original ==
    (pOp = "segments" /\ pOut.ok /\ EndsWithTwoPrefetch) => PrefetchTailIsExpected

\* C6 (amended): when segments() succeeds on a media playlist whose only
\* #EXT-X-TWITCH-PREFETCH lines are its last two lines, and these are not
\* directly preceded by an #EXTINF line, the list ends with
\* NextPrefetch(d, url1), NewestPrefetch(url2): d the duration of the last
\* #EXTINF line of the body with was_capped false, url1 and url2 the text
\* after the first ':' of the two lines.
C6_PrefetchTail ==
    ( /\ pOp = "segments" /\ pOut.ok
      /\ EndsWithTwoPrefetch
      /\ PrefetchLines = {Len(pLines) - 1, Len(pLines)}
      /\ (Len(pLines) - 2) \notin ExtInfLines )
    => PrefetchTailIsExpected

\* A playlist with two #EXTINF lines of different durations and the two
\* prefetch lines: the NextPrefetch carries the later one's duration.
C6_Witness ==
    /\ pOp = "segments" /\ pOut.ok
    /\ EndsWithTwoPrefetch
    /\ PrefetchLines = {Len(pLines) - 1, Len(pLines)}
    /\ (Len(pLines) - 2) \notin ExtInfLines
    /\ Len(pOut.val) >= 3
    /\ pOut.val[1].kind = "Normal"
    /\ pOut.val[1].duration.inner # pOut.val[Len(pOut.val) - 1].duration.inner

MapLines == {i \in 1..Len(pLines) : StartsWith(pLines[i], <<"#EXT-X-MAP">>)}
FirstMapLine == pLines[CHOOSE i \in MapLines : \A j \in MapLines : i <= j]

\* The quotes that surround a text stripped, the other ones kept.
StripSurroundingQuotes(s) ==
    LET a == IF s # <<>> /\ Head(s) = QUOTE THEN Tail(s) ELSE s
    IN  IF a # <<>> /\ a[Len(a)] = QUOTE THEN SubSeq(a, 1, Len(a) - 1) ELSE a

\* C7 as stated: Header is Some(u), u the value after '=' on the first
\* #EXT-X-MAP line with the SURROUNDING quotes stripped, and None when the
\* playlist has no #EXT-X-MAP line.
C7_Original ==
    pOp = "header" =>
        IF MapLines = {} THEN pOut = None
        ELSE SplitOnce(FirstMapLine, "=").some =>
                pOut = Some(StripSurroundingQuotes(SplitOnce(FirstMapLine, "=").after))

\* C7 (amended): Header is Some(u), u the text after the first '=' of the
\* first #EXT-X-MAP line with EVERY double quote removed, and None when the
\* playlist has no #EXT-X-MAP line or that line has no '='.
C7_Header ==
    pOp = "header" =>
        /\ pOut.some <=> (MapLines # {} /\ Contains(FirstMapLine, <<"=">>))
        /\ pOut.some =>
            /\ \A k \in 1..Len(pOut.v) : pOut.v[k] # QUOTE
            /\ pOut.v = RemoveAll(SplitOnce(FirstMapLine, "=").after, QUOTE)

\* Two #EXT-X-MAP lines with different values: the first one's URL is taken.
C7_Witness ==
    /\ pOp = "header"
    /\ pOut = Some(HttpUrl("header.invalid"))
    /\ \E i \in MapLines : Contains(pLines[i], <<"h2.invalid">>)

\* An attempt of this call() failed after some body byte had reached the
\* writer, call() reconnected, and the call then returned Ok with every
\* attempt's copy run to the end of the body.
RetriedAndSucceeded == hpc = "done" /\ attempts > 1 /\ ~truncated

\* C1: after a retryable failure in mid-body and a successful retry the sink
\* holds exactly the body, once and in order.
C1_ResumeIdempotent == RetriedAndSucceeded => sink = body

\* C2: no segment URL is handed to the worker twice within one session.
C2_NoDuplicateUrl ==
    \A i, j \in 1..Len(sent) : i # j => sent[i] # sent[j]

\* The sink's contents when every URL handed to the worker from the i-th on
\* is downloaded in turn, the skipped ones left out.
RECURSIVE ExpectedSink(_)
ExpectedSink(i) ==
    IF i > Len(sent) THEN <<>>
    ELSE (IF i \in skipped THEN <<>> ELSE [k \in 1..SegLen |-> <<sent[i], k>>])
         \o ExpectedSink(i + 1)

\* C3: at every moment of every interleaving of the two threads the sink
\* holds a prefix of the bodies of the dispatched URLs, whole and in dispatch
\* order: bytes of two segments are never interleaved.
C3_SinkInDispatchOrder ==
    /\ Len(player) <= Len(ExpectedSink(1))
    /\ player = SubSeq(ExpectedSink(1), 1, Len(player))

\* The bodies of two different segments have reached the sink while a
\* further URL waits in the channel.
C3_Witness ==
    /\ Len(player) >= 2 * SegLen
    /\ player[1][1] # player[2 * SegLen][1]
    /\ chan # <<>>

\* The last #EXTINF line of the current playlist carries the ad marker.
LastExtInfIsAd ==
    /\ last_duration(playlist).ok
    /\ last_duration(playlist).val.is_ad

\* process() has run on the current playlist.
Processed == cycle.branch # "none" /\ mpc \in {"reload", "sync_wait", "error"}

\* C4: a process() call on a playlist whose last #EXTINF line carries the ad
\* marker hands no URL to the worker and leaves prev_segment as it was.
C4_AdFilter ==
    (Processed /\ LastExtInfIsAd) =>
        /\ cycle.n = 0
        /\ prev_segment = cycle.prev_before
        /\ pending = cycle.prev_before \/ mpc # "sync_wait"

\* The position of a segment in the stream, 0 for Unknown.
PosOf(seg) ==
    IF seg.kind = "Unknown" THEN 0
    ELSE CHOOSE n \in 1..MaxSeg : SegUrl(n) = seg.url.v

\* C8: over playlists that are sliding windows of one append-only stream a
\* process() call never moves prev_segment to an earlier position.
C8_NeverBackward == PosOf(prev_segment) >= PosOf(cycle.prev_before)

\* C9: one process() call hands at most one URL to the worker, and none in
\* the ad-filter branch and in the playlist-unchanged branch.
C9_AtMostOneUrl ==
    /\ cycle.n <= 1
    /\ cycle.branch \in {"ad", "unchanged"} => cycle.n = 0

\* A process() call found the playlist unchanged after an earlier call had
\* handed a URL over, and slept.
C9_Witness ==
    /\ cycle.branch = "unchanged"
    /\ cycle.status = "ok"
    /\ sent # <<>>

\* C10: once a process() call whose next segment is a NewestPrefetch has
\* returned, the worker has taken that URL from the channel and prev_segment
\* is that segment; the download need not be complete.
C10_NewestHandedSynchronously ==
    (cycle.branch = "newest" /\ mpc # "sync_wait") =>
        /\ chan = <<>>
        /\ prev_segment.kind = "NewestPrefetch"
        /\ prev_segment.url = Some(sent[Len(sent)])

\* The call has returned while the worker is still writing the body of the
\* NewestPrefetch.
C10_Witness ==
    /\ cycle.branch = "newest"
    /\ mpc = "reload"
    /\ prev_segment.kind = "NewestPrefetch"
    /\ wpc = "busy"
    /\ wurl = prev_segment.url.v
    /\ wpos < SegLen

\* The last line of a text that is not empty (the empty text when there is
\* none).
LastNonEmptyLine(s) ==
    LET parts == Split(s, NL)
        full == {i \in 1..Len(parts) : parts[i] # <<>>}
    IN  IF full = {} THEN <<>>
        ELSE parts[CHOOSE i \in full : \A j \in full : j <= i]

EndsWithEndList(s) == StartsWith(LastNonEmptyLine(s), <<"#EXT-X-ENDLIST">>)

\* C11: whenever the last non-empty line of the reloaded body begins with
\* #EXT-X-ENDLIST, also when empty lines follow it, reload() returns Offline
\* and the stored playlist is the new body.
C11_EndListDetection ==
    (pOp = "reload" /\ pIn.error = "none" /\ EndsWithEndList(pIn.playlist))
        => /\ pOut.result = Err("Offline")
           /\ pOut.playlist = pIn.playlist

\* C12: a NotFound answer to the media-playlist reload or to the master-
\* playlist fetch of the Twitch path is returned as Offline; every other
\* error of those requests is returned as it is.
C12_NotFoundIsOffline ==
    (pOp \in {"reload", "fetch_twitch_playlist"} /\ pIn.error # "none")
        => LET result == IF pOp = "reload" THEN pOut.result ELSE pOut
           IN  result = Err(IF pIn.error = "NotFound" THEN "Offline"
                            ELSE pIn.error)

C12_Witness ==
    /\ pOp = "fetch_twitch_playlist"
    /\ pIn.error = "NotFound"
    /\ pOut = Err("Offline")

\* A step in which io::copy has passed bytes to Handler::write.
WriteStep == pos' > pos

\* C13: after every write through the Handler, handler.written is the number
\* of body bytes the sink has received in this call(); when call() returns
\* Ok, written is 0.
C13_WrittenCountsDelivered ==
    [][ /\ WriteStep => handler'.written = Len(sink')
        /\ (hpc # "done" /\ hpc' = "done") => handler'.written = 0 ]_vars

\* A step that takes handler.written from a non-zero value to zero.
WrittenZeroed == handler.written > 0 /\ handler'.written = 0

SameOrigin(a, b) == a.scheme = b.scheme /\ a.host = b.host

CallReturnsOk == hpc = "request" /\ hpc' = "done"
RetryStep == retries' = retries + 1 /\ attempts' = attempts + 1
UrlStep == calls' = calls + 1

\* C14 as stated: handler.written goes from non-zero to zero only when call()
\* returns Ok.
C14_Original == [][ WrittenZeroed => CallReturnsOk ]_vars

\* C14: handler.written goes from non-zero to zero when call() returns Ok,
\* when a retry reconnects, and when url() reconnects for another scheme or
\* host; a call() that returns Err and a URL update that keeps scheme and
\* host leave the handler as it is.
C14_ResetPoints ==
    [][ /\ WrittenZeroed =>
            \/ CallReturnsOk
            \/ RetryStep /\ transport' # transport
            \/ UrlStep /\ ~SameOrigin(url, url') /\ transport' # transport
        /\ (hpc' = "failed") => handler' = handler
        /\ (UrlStep /\ SameOrigin(url, url')) => handler' = handler ]_vars

C14_Witness ==
    /\ hpc = "headers"
    /\ attempts > 1
    /\ sink # <<>>
    /\ handler.written = 0

\* An io::Error of a kind other than Other.
TransientIo(e) == e.kind = "Io" /\ e.io # "Other"

InCall == hpc \in {"headers", "request"}
Returned == hpc \in {"done", "failed"}

\* C15 as stated: when every attempt has failed with a retryable I/O error,
\* at most config.retries attempts were made.
C15_Original ==
    (hpc = "failed" /\ err = attempt_err /\ TransientIo(err))
        => attempts <= cfg_retries

\* C15: call() returns; it makes at most config.retries + 1 attempts, and
\* when it returns the retryable I/O error of its last attempt it has made
\* exactly config.retries + 1 of them.
C15_Terminates ==
    /\ [](attempts <= cfg_retries + 1)
    /\ []((hpc = "failed" /\ err = attempt_err /\ TransientIo(err))
            => (attempts = cfg_retries + 1 /\ retries = cfg_retries))
    /\ (InCall ~> Returned)

C15_Witness ==
    /\ hpc = "failed"
    /\ err = attempt_err
    /\ TransientIo(err)
    /\ cfg_retries >= 2
    /\ attempts = cfg_retries + 1

\* A step in which do_request returns an error to call().
AttemptFails == InCall /\ calls' = calls /\ attempt_err' # NoError

\* C16: an io::Error of kind Other and every error that is no io::Error is
\* returned at once, with no reconnect and no further attempt; any other
\* io::Error, while retries remain, makes call() reconnect to the same URL
\* and run another attempt (the error of a reconnect that fails is returned).
C16_RetryClassification ==
    [][ AttemptFails =>
          IF TransientIo(attempt_err') /\ retries < cfg_retries
          THEN /\ retries' = retries + 1
               /\ url' = url
               /\ \/ /\ hpc' = "headers"
                     /\ attempts' = attempts + 1
                     /\ transport' # transport
                     /\ transport'.scheme = url.scheme
                     /\ transport'.host = url.host
                     /\ raw' = build(url)
                  \/ /\ hpc' = "failed"
                     /\ err' = IoError("ConnectionRefused")
                     /\ attempts' = attempts
          ELSE /\ hpc' = "failed"
               /\ err' = attempt_err'
               /\ transport' = transport
               /\ attempts' = attempts
               /\ retries' = retries ]_vars

C16_Witness ==
    /\ hpc = "headers"
    /\ attempts = 2
    /\ retries = 1
    /\ attempt_err = IoError("UnexpectedEof")

\* A step in which do_request has read a status line.
StatusRead == hpc = "headers" /\ calls' = calls /\ code' # 0

NothingWritten == sink' = sink /\ pos' = pos /\ handler' = handler

\* C17: with status 200 do_request goes on to the Decoder and the body; 404
\* fails with NotFound(url) and any other code with Status(code, url), and
\* in both cases nothing is written to the sink.
C17_StatusHandling ==
    [][ StatusRead =>
          IF code' = 200
          THEN \/ hpc' = "request" /\ attempt_err' = NoError
               \/ hpc' = "failed" /\ attempt_err'.kind = "Other"
          ELSE /\ hpc' = "failed"
               /\ NothingWritten
               /\ err' = attempt_err'
               /\ attempt_err' = IF code' = 404 THEN NotFound(url)
                                 ELSE IF code' > 0 THEN Status(code', url)
                                 ELSE OtherError("Failed to parse request status code")
      ]_vars

C17_Witness ==
    /\ hpc = "failed"
    /\ code = 404
    /\ err = NotFound(url)
    /\ sink = <<>>

\* C18: header reading never holds more than MAX_HEADERS_SIZE bytes of
\* headers: it fails before.
C18_HeadersBounded ==
    pOp = "read_headers" => pOut.response <= MAX_HEADERS_SIZE

\* Header names that differ in case only.
NameGroups ==
    { {"Content-Length", "content-length"},
      {"Transfer-Encoding", "transfer-encoding"},
      {"Content-Encoding", "CONTENT-ENCODING"},
      {"Content-Type"} }

SameName(a, b) == \E g \in NameGroups : a \in g /\ b \in g

HasHeader(hs, name, value) ==
    \E i \in 1..Len(hs) : SameName(hs[i].name, name) /\ hs[i].value = value

HasName(hs, name) == \E i \in 1..Len(hs) : SameName(hs[i].name, name)

\* C19: the Decoder is chosen in the order chunked with gzip, chunked, gzip,
\* Content-Length, whatever the case of the header names; without any of
\* them Decoder::new fails.
C19_DecoderPriority ==
    pOp = "Decoder_new" =>
        LET hs == pIn.resp.headers
            chunked == HasHeader(hs, "Transfer-Encoding", "chunked")
            gzipped == HasHeader(hs, "Content-Encoding", "gzip")
        IN  IF chunked /\ gzipped THEN pOut.ok /\ pOut.val.kind = "ChunkedGzip"
            ELSE IF chunked THEN pOut.ok /\ pOut.val.kind = "Chunked"
            ELSE IF gzipped THEN pOut.ok /\ pOut.val.kind = "Gzip"
            ELSE IF HasName(hs, "Content-Length")
            THEN pOut.ok /\ pOut.val.kind = "Unencoded"
            ELSE pOut = Err(OtherError("Could not resolve encoding of HTTP response"))

C19_Witness ==
    /\ pOp = "Decoder_new"
    /\ HasName(pIn.resp.headers, "Content-Length")
    /\ HasHeader(pIn.resp.headers, "transfer-encoding", "chunked")
    /\ pOut = Ok(MkDecoder("Chunked", 0))

\* C20: url(new) with the scheme and host of the current URL keeps the
\* connection and rebuilds the wire string for the new URL; with another
\* scheme or host it opens a connection to the new host.
C20_UrlUpdate ==
    [][ UrlStep =>
          IF hpc' = "headers"
          THEN /\ raw' = build(url')
               /\ IF SameOrigin(url, url')
                  THEN transport' = transport
                  ELSE /\ transport' # transport
                       /\ transport'.scheme = url'.scheme
                       /\ transport'.host = url'.host
          ELSE /\ hpc' = "failed"
               /\ url' = url
               /\ transport' = transport
               /\ raw' = raw ]_vars

C20_Witness ==
    /\ calls = 1
    /\ hpc = "headers"
    /\ attempts = 1
    /\ url = MkUrl("https", "a.invalid", 2)
    /\ raw = build(url)
    /\ transport = Transport_new(FirstUrl, 0)

(***************************************************************************)
(* C21.  fetch_proxy_playlist tries the servers in list order and uses the *)
(* body of the first server that returns one; a 404 ends the search: no    *)
(* later server is tried and the result is Offline; when no server returns *)
(* a body the result is Offline.                                           *)
(***************************************************************************)
ProxyAnswers == pIn.args.servers.v

\* The first server whose answer is a body or a 404 (0: there is none).
FirstDecisive ==
    LET ds == {i \in 1..Len(ProxyAnswers) :
                  ProxyAnswers[i].ok \/ ProxyAnswers[i].val = "NotFound"}
    IN  IF ds = {} THEN 0 ELSE CHOOSE i \in ds : \A j \in ds : i <= j

C21_ProxyFetch ==
    pOp = "fetch_proxy_playlist" =>
        IF FirstDecisive = 0
        THEN pOut.result = Err("Offline") /\ pOut.tried = Len(ProxyAnswers)
        ELSE /\ pOut.tried = FirstDecisive
             /\ pOut.result =
                    IF ProxyAnswers[FirstDecisive].ok
                    THEN parse_variant_playlist(ProxyAnswers[FirstDecisive].val,
                                                pIn.quality)
                    ELSE Err("Offline")

(***************************************************************************)
(* C22.  The low_latency of the MasterPlaylist of a session.               *)
(***************************************************************************)
FutureToken == <<"FUTURE", "=", QUOTE, "true", QUOTE>>

\* The master playlist body the session's MasterPlaylist was parsed from:
\* the Twitch answer, or the body of the first proxy server that sent one.
SessionBody ==
    IF pIn.args.servers.some
    THEN LET oks == {i \in 1..Len(ProxyAnswers) : ProxyAnswers[i].ok}
         IN  ProxyAnswers[CHOOSE i \in oks : \A j \in oks : i <= j].val
    ELSE pIn.playlist

\* C22 as stated: for every MasterPlaylist produced for a session,
\* low_latency is true iff the body contains FUTURE="true", whatever the
\* command line says.
C22_Original ==
    (pOp = "MasterPlaylist_new" /\ pOut.ok) =>
        (pOut.val.low_latency <=> Contains(SessionBody, FutureToken))

\* C22, amended: the MasterPlaylist of a session has low_latency true iff
\* the body contains FUTURE="true" and the option --low-latency was given;
\* parse_variant_playlist alone sets it iff the body contains the token.
C22_LowLatency ==
    /\ (pOp = "MasterPlaylist_new" /\ pOut.ok) =>
            (pOut.val.low_latency <=>
                (Contains(SessionBody, FutureToken) /\ pIn.args.low_latency))
    /\ (pOp = "parse_variant_playlist" /\ pOut.ok) =>
            (pOut.val.low_latency <=> Contains(pIn.playlist, FutureToken))

C22_Witness ==
    /\ pOp = "MasterPlaylist_new" /\ pOut.ok
    /\ Contains(SessionBody, FutureToken)
    /\ ~pIn.args.low_latency
    /\ ~pOut.val.low_latency

(***************************************************************************)
(* C23.  Segment equality is an equivalence that depends on the URL only:  *)
(* two segments compare equal iff their URLs are equal, whatever their     *)
(* variant and Duration; Unknown, which has no URL, is equal to no segment *)
(* that has one.                                                           *)
(***************************************************************************)
C23_SegmentEq ==
    pOp = "eq" =>
        LET a == pIn.segs[1]
            b == pIn.segs[2]
        IN  /\ pOut.ab <=> (a.url = b.url)
            /\ (a.kind = "Unknown" /\ b.kind # "Unknown") => ~pOut.ab
            /\ pOut.aa
            /\ pOut.ab <=> pOut.ba
            /\ (pOut.ab /\ pOut.bc) => pOut.ac

\* A Normal and a NewestPrefetch segment with one URL compare equal.
C23_Witness ==
    /\ pOp = "eq"
    /\ pIn.segs[1].kind = "Normal"
    /\ pIn.segs[2].kind = "NewestPrefetch"
    /\ pIn.segs[1].url = pIn.segs[2].url
    /\ pOut.ab

(***************************************************************************)
(* C24.  Sleep cap: Duration::sleep on a duration of at least 3 seconds    *)
(* sleeps for half the duration minus the elapsed time (5.0 s with 0.1 s   *)
(* elapsed: sleep_thread gets 2.5 s) and sets was_capped; a later sleep on *)
(* the same Duration uses half the duration again, never the full one; a   *)
(* duration below 3 s that was never capped sleeps its full length minus   *)
(* elapsed; nothing is slept when elapsed exceeds the target.              *)
(***************************************************************************)
\* The time slept for a target and an elapsed time (-1: no sleep).
SleptFor(target, elapsed) == IF elapsed > target THEN -1 ELSE target - elapsed

C24_SleepCap ==
    pOp = "sleep" =>
        LET d == pIn.segs[1].duration
            e1 == pIn.elapsed[1]
            e2 == pIn.elapsed[2]
            long == d.inner >= MAX_DURATION
            target == IF long THEN d.inner \div 2 ELSE d.inner
        IN  /\ (long \/ ~d.was_capped) =>
                /\ pOut.first.slept = SleptFor(target, e1)
                /\ pOut.second.slept = SleptFor(target, e2)
                /\ pOut.first.duration.was_capped = long
                /\ pOut.second.duration.was_capped = long
            /\ pOut.second.duration.inner = d.inner
            /\ (d.inner = 5000 /\ e1 = 100 /\ e2 = 0) =>
                    (pOut.first.slept = 2500 - 100 /\ pOut.second.slept = 2500)

\* The 5.0 s Duration, first slept on with 0.1 s elapsed, then with none.
C24_Witness ==
    /\ pOp = "sleep"
    /\ pIn.segs[1].duration.inner = 5000
    /\ ~pIn.segs[1].duration.was_capped
    /\ pIn.elapsed = <<100, 0>>
    /\ pOut.first.duration.was_capped
    /\ pOut.second.slept = 2500

(***************************************************************************)
(* C25.  SyncUrl handshake: a synchronous dispatch returns to the producer *)
(* only after the worker has dequeued that URL and begun processing it,    *)
(* and it can return before the download of that URL has finished (the     *)
(* witness); an asynchronous Url dispatch returns without waiting for the  *)
(* worker: its message is still queued when process() returns.             *)
(***************************************************************************)
SyncDispatchReturns == mpc = "sync_wait" /\ mpc' = "reload"
AsyncDispatchReturns ==
    mpc = "process" /\ mpc' = "reload" /\ Len(sent') = Len(sent) + 1

C25_SyncHandshake ==
    [][ /\ SyncDispatchReturns =>
            /\ chan = <<>>
            /\ wurl = sent[Len(sent)]
            /\ (wpc = "busy" \/ wpos = SegLen \/ Len(sent) \in skipped)
        /\ AsyncDispatchReturns =>
            /\ chan' = Append(chan, [kind |-> "Url", url |-> sent'[Len(sent')]])
            /\ UNCHANGED <<wpc, wurl, wpos>> ]_vars

\* A synchronous dispatch has returned while the worker is still writing the
\* body of that URL.
C25_Witness ==
    /\ mpc = "reload"
    /\ cycle.status = "ok"
    /\ cycle.branch \in {"newest", "unknown"}
    /\ wpc = "busy"
    /\ wurl = sent[Len(sent)]
    /\ wpos < SegLen

(***************************************************************************)
(* C26.  Backpressure: the number of URLs queued between the orchestrator  *)
(* and the worker never exceeds the channel depth, and while the channel   *)
(* is full no further URL is handed over: the producer stays blocked until *)
(* the worker dequeues.                                                    *)
(***************************************************************************)
C26_Backpressure ==
    /\ [](Len(chan) <= ChanDepth)
    /\ [][Len(chan) = ChanDepth => (sent' = sent /\ Len(chan') <= Len(chan))]_vars

\* The main thread has a URL to hand over and the channel is full.
C26_Witness ==
    /\ mpc = "reload"
    /\ Len(sent) < MaxSent
    /\ Len(chan) = ChanDepth

(***************************************************************************)
(* C27.  Session termination: once the orchestrator has returned from its  *)
(* loop, which drops the sender of the worker's channel, the worker        *)
(* processes every URL still queued and then exits; it does not block      *)
(* forever on the closed channel.                                          *)
(***************************************************************************)
LoopReturned == mpc \in {"offline", "error"}

PrevHits == {i \in 1..Len(pIn.segs) : pIn.segs[i].url = pIn.prev.url}
FirstPrevHit == CHOOSE i \in PrevHits : \A j \in PrevHits : i <= j

C28_FindNext ==
    pOp = "find_next" =>
        IF PrevHits = {}
        THEN pOut.some /\ pOut.v = Unknown /\ pOut.list = pIn.segs
        ELSE IF FirstPrevHit = Len(pIn.segs)
        THEN ~pOut.some /\ pOut.list = pIn.segs
        ELSE /\ pOut.some
             /\ pOut.v = pIn.segs[FirstPrevHit + 1]
             /\ Len(pOut.list) = Len(pIn.segs)
             /\ \A k \in 1..Len(pIn.segs) :
                    pOut.list[k] = IF k = FirstPrevHit + 1 THEN Unknown
                                   ELSE pIn.segs[k]

\* prev is listed twice, and the element after its first occurrence is
\* returned.
C28_Witness ==
    /\ pOp = "find_next"
    /\ Cardinality(PrevHits) = 2
    /\ FirstPrevHit = 1
    /\ Len(pIn.segs) = 3
    /\ pOut.some
    /\ pOut.v = pIn.segs[2]
    /\ pOut.list[2] = Unknown

(***************************************************************************)
(* C29.  A process() call whose playlist lists prev_segment (found by its  *)
(* URL) followed by a Normal or NextPrefetch segment hands the URL of that *)
(* successor to the worker asynchronously and returns with prev_segment    *)
(* being that segment, so that the next cycle finds it in the reloaded     *)
(* playlist by its URL and chooses its successor in turn.                  *)
(***************************************************************************)
\* The indexes of the segments of the list that have the URL of seg.
ListedAt(seg, segs) == {i \in 1..Len(segs) : segs[i].url = seg.url}

ProcessReturns == mpc = "process" /\ mpc' # "process"

\* The successor of prev_segment in the list is handed over asynchronously
\* and becomes prev_segment.
SuccessorDispatched(segs, hits) ==
    hits # {} =>
        \E i \in {CHOOSE i \in hits : \A j \in hits : i <= j} :
            (i < Len(segs) /\ segs[i + 1].kind \in {"Normal", "NextPrefetch"}) =>
                /\ chan' = Append(chan, [kind |-> "Url", url |-> segs[i + 1].url.v])
                /\ sent' = Append(sent, segs[i + 1].url.v)
                /\ mpc' = "reload"
                /\ prev_segment'.kind = segs[i + 1].kind
                /\ prev_segment'.url = segs[i + 1].url

C29_NextDispatch ==
    [][ ProcessReturns =>
            \E parsed \in {segments(playlist)} :
                parsed.ok =>
                    SuccessorDispatched(parsed.val,
                                        ListedAt(prev_segment, parsed.val)) ]_vars

\* The segment dispatched as NextPrefetch in one cycle was found as a Normal
\* segment of the reloaded playlist in the next, and its successor was
\* dispatched.
C29_Witness ==
    /\ mpc = "reload"
    /\ cycle.status = "ok"
    /\ cycle.branch = "next"
    /\ cycle.prev_before.kind = "NextPrefetch"
    /\ \E parsed \in {segments(playlist)} :
        /\ parsed.ok
        /\ \E i \in ListedAt(cycle.prev_before, parsed.val) :
            /\ parsed.val[i].kind = "Normal"
            /\ i < Len(parsed.val)
            /\ parsed.val[i + 1].url = prev_segment.url
            /\ sent[Len(sent)] = prev_segment.url.v

(***************************************************************************)
(* C30.  A process() call whose playlist does not list prev_segment (the   *)
(* first cycle, where prev_segment is Unknown, included) hands exactly the *)
(* last segment of the list to the worker, synchronously, and sets         *)
(* prev_segment to it, skipping every older segment; the notice "skipping  *)
(* to newest" is logged only when init is false, that is when this is not  *)
(* the first such cycle; init is false ever after.                         *)
(***************************************************************************)
\* The newest segment of the list is handed over with sync_url.
NewestDispatched(segs) ==
    /\ chan' = Append(chan, [kind |-> "SyncUrl", url |-> segs[Len(segs)].url.v])
    /\ sent' = Append(sent, segs[Len(segs)].url.v)
    /\ mpc' = "sync_wait"
    /\ pending' = segs[Len(segs)]
    /\ cycle'.notice = ~init
    /\ init' = FALSE

C30_SkipToNewest ==
    /\ [][ ProcessReturns =>
              \E parsed \in {segments(playlist)} :
                  (parsed.ok /\ parsed.val # <<>>
                   /\ ListedAt(prev_segment, parsed.val) = {}) =>
                        NewestDispatched(parsed.val) ]_vars
    /\ [][ SyncDispatchReturns => prev_segment' = pending ]_vars
    /\ [][ (cycle'.notice /\ ProcessReturns) =>
                (~init /\ cycle'.branch = "unknown") ]_vars
    /\ [][ ~init => ~init' ]_vars

\* A later cycle did not find prev_segment, logged the notice and has handed
\* over the newest segment.
C30_Witness ==
    /\ mpc = "reload"
    /\ cycle.status = "ok"
    /\ cycle.branch = "unknown"
    /\ cycle.notice
    /\ cycle.prev_before # Unknown
    /\ prev_segment.url = Some(sent[Len(sent)])
    /\ ~init

(***************************************************************************)
(* C31.  Playlist not advanced: a process() call that finds prev_segment   *)
(* as the last element of the parsed list hands nothing to the worker,     *)
(* leaves prev_segment as it is, sleeps for half the duration prev_segment *)
(* carries (less the elapsed time) and returns Ok, whichever variant       *)
(* prev_segment is: Normal, NextPrefetch or NewestPrefetch.                *)
(***************************************************************************)
\* The call returns Ok without a dispatch, after the half-duration sleep.
NothingDispatched(prev) ==
    /\ chan' = chan
    /\ sent' = sent
    /\ prev_segment' = prev
    /\ mpc' = "reload"
    /\ cycle'.status = "ok"
    /\ cycle'.branch = "unchanged"
    /\ \E d \in {destructure_ref(prev).duration} :
        /\ d.some
        /\ \A e \in Elapsed :
            RetryUnchanged(prev, init, e).slept = SleptFor(d.v.inner \div 2, e)

C31_NotAdvanced ==
    [][ ProcessReturns =>
            \E parsed \in {segments(playlist)} :
                \E hits \in {IF parsed.ok THEN ListedAt(prev_segment, parsed.val)
                             ELSE {}} :
                    (hits # {} /\ \A i \in hits : i = Len(parsed.val)) =>
                        NothingDispatched(prev_segment) ]_vars

(***************************************************************************)
(* C32.  MediaPlaylist::segments: every #EXTINF line with a non-ad         *)
(* duration that has a line after it yields exactly one segment            *)
(* Normal(duration, that line), wherever it stands in the body, also       *)
(* directly after a #EXT-X-TWITCH-PREFETCH line; an ad #EXTINF line yields *)
(* none; the Normal segments appear in the order of their #EXTINF lines.   *)
(* Stated for the bodies in which every #EXTINF line has a line of its own *)
(* after it.                                                               *)
(***************************************************************************)
\* The lines of the body that are non-ad #EXTINF lines with a line after.
ExtInfEntries(ls) ==
    {i \in 1..(Len(ls) - 1) :
        /\ StartsWith(ls[i], <<"#EXTINF">>)
        /\ Duration_from_str(ls[i]).ok
        /\ ~Duration_from_str(ls[i]).val.is_ad}

\* The k-th smallest element of a set of numbers.
KthOf(S, k) == CHOOSE i \in S : Cardinality({j \in S : j < i}) = k - 1

IsNormal(seg) == seg.kind = "Normal"

\* Every #EXTINF line of the body stands after a line that is no #EXTINF
\* line: no entry lacks its URL line.
EntriesComplete(ls) ==
    \A i \in 2..Len(ls) :
        StartsWith(ls[i], <<"#EXTINF">>) => ~StartsWith(ls[i - 1], <<"#EXTINF">>)

C32_NormalPerExtInf ==
    (pOp = "segments" /\ pOut.ok /\ EntriesComplete(Lines(pIn.playlist))) =>
        \E ls \in {Lines(pIn.playlist)} :
            \E normals \in {SelectSeq(pOut.val, IsNormal)} :
                /\ Len(normals) = Cardinality(ExtInfEntries(ls))
                /\ \A k \in 1..Len(normals) :
                    \E i \in {KthOf(ExtInfEntries(ls), k)} :
                        normals[k] = Normal(Duration_from_str(ls[i]).val, ls[i + 1])

(***************************************************************************)
(* C33.  Content-Length framing: reading a body framed by Content-Length N *)
(* the decoder's consumed counter never exceeds N, a read returns 0 (the   *)
(* end of the body) exactly when consumed equals N, the reads yield N      *)
(* bytes in total, and no byte that follows the body on the connection is  *)
(* consumed.                                                               *)
(***************************************************************************)
\* The value of consumed when the k-th read of a copy began.
ConsumedBefore(trace, k) == IF k = 1 THEN 0 ELSE trace[k - 1]

\* The last read of a copy is the one that returned 0.
C33_ContentLength ==
    pOp = "read" =>
        \E N \in {parse_usize(pIn.resp.headers[1].value).val} :
            /\ \A k \in 1..Len(pOut.trace) : pOut.trace[k] <= N
            /\ \A k \in 1..Len(pOut.trace) :
                    (k = Len(pOut.trace)) <=> (ConsumedBefore(pOut.trace, k) = N)
            /\ pOut.yielded = N
            /\ pOut.stream.avail = pIn.stream.avail - N

(***************************************************************************)
(* C34.  Headers of the caller survive reconnection: every header added    *)
(* with header() before call() is in the wire request of every attempt,    *)
(* also of the attempts after a retry has reconnected and of the requests  *)
(* sent after url() has changed to another host.                           *)
(***************************************************************************)
InWire(header, wire) == \E i \in 1..Len(wire.headers) : wire.headers[i] = header

C34_HeadersSurvive ==
    pOp = "request" =>
        \A k \in 1..Len(pOut) :
            \A i \in 1..Len(pIn.req.headers) :
                InWire(pIn.req.headers[i], pOut[k].wire)

(***************************************************************************)
(* C35.  When a call() begins on a request, also on one that is reused     *)
(* after calls that retried or failed, the handler's resume_target is 0:   *)
(* the first attempt of the call forwards every byte of the response body  *)
(* it decodes to the sink and discards none.                               *)
(***************************************************************************)
C35_FreshCall ==
    /\ (hpc = "headers" /\ attempts = 1) => handler.resume_target = 0
    /\ (hpc \in {"request", "done"} /\ attempts = 1) =>
            sink = SubSeq(body, 1, pos)

\* The second call on a request whose first call failed in the middle of a
\* body has begun, and its first attempt has forwarded the whole body.
C35_Witness ==
    /\ calls = 2
    /\ hpc = "request"
    /\ attempts = 1
    /\ handler.written > Len(body)
    /\ pos = Len(body)
    /\ pos > 0
    /\ sink = body

(***************************************************************************)
(* C36.  No ad is handed to the worker: in every state of the reload and   *)
(* process loop the segment last dispatched (prev_segment, or the one a    *)
(* sync_url is waiting on), when it is a Normal or a NextPrefetch, carries *)
(* a Duration whose is_ad is false.                                        *)
(***************************************************************************)
C36_NoAdDispatched ==
    \A seg \in {prev_segment, pending} :
        seg.kind \in {"Normal", "NextPrefetch"} => ~seg.duration.is_ad

(***************************************************************************)
(* C37.  After url(new_url) has returned Ok the request's transport is     *)
(* connected to the host and the port of new_url: a URL that differs from  *)
(* the current one in its port only is not sent over the connection to the *)
(* old port.                                                               *)
(***************************************************************************)
C37_TransportFollowsUrl ==
    pOp = "request" =>
        \A k \in 1..Len(pOut) :
            pOut[k].stream.addr = <<pOut[k].url.host, pOut[k].url.port>>

(***************************************************************************)
(* C38.  In the orchestrator loop of main, within one player session the   *)
(* media sequence numbers of the segments whose URL is sent to the IO      *)
(* thread are strictly increasing: after the catch-up segment a URL is     *)
(* sent only when the reloaded segment's media sequence is greater than    *)
(* the previous one; an equal sequence sends nothing and reloads again; a  *)
(* lower one ends main with an error and sends nothing.                    *)
(***************************************************************************)
SentIncreasing ==
    \A i, j \in 1..Len(sent) :
        i < j => sent[i].media_sequence < sent[j].media_sequence

\* What an iteration whose reload returned a segment does with it.
ReloadedHandled(prev, new) ==
    /\ new.media_sequence > prev.media_sequence =>
            \/ sent' = Append(sent, new) /\ mpc' = "loop"
            \/ sent' = sent /\ mpc' = "error"
    /\ new.media_sequence = prev.media_sequence =>
            sent' = sent /\ mpc' = "loop"
    /\ new.media_sequence < prev.media_sequence =>
            sent' = sent /\ mpc' = "error"

C38_SequenceIncreasing ==
    /\ [] SentIncreasing
    /\ [][ (mpc = "loop" /\ cycle'.status = "ok") =>
                ReloadedHandled(prev_segment, prev_segment') ]_vars
    /\ [][ (mpc = "loop" /\ sent' # sent) =>
                /\ sent' = Append(sent, prev_segment')
                /\ prev_segment'.media_sequence > prev_segment.media_sequence ]_vars

\* Three URLs were sent in the session, and the last reload returned a
\* segment with the sequence number of the last one sent and another URL:
\* it was not sent.
C38_Witness ==
    /\ mpc = "loop"
    /\ Len(sent) = 3
    /\ cycle.status = "ok"
    /\ prev_segment.media_sequence = sent[3].media_sequence
    /\ prev_segment.url # sent[3].url
====
